---- MODULE Spec2Model ----
(***************************************************************************)
(* Room playback synchronisation and broadcast engine of                   *)
(* simple-stream-party (the Fastify/WebSocket server in main.ts and        *)
(* playback-dedupe.ts).                                                    *)
(*                                                                         *)
(* Conventions of the model                                                *)
(*  - Time is the value returned by nowMs(), in milliseconds.  All calls   *)
(*    of nowMs() made by one handler run return the same value.            *)
(*  - playbackTimeSec is kept in thousandths of a second (field            *)
(*    playbackTimeMs), so that elapsedSec = (currentMs - last)/1000 stays  *)
(*    an integer.  The IEEE value +Infinity (JSON 1e999) is the saturating *)
(*    value Infinity.                                                      *)
(*  - Strings that the code trims or slices (nicknames, chat text, reply   *)
(*    ids) are sequences of one-character strings.                         *)
(*  - One room id exists (newId() of POST /rooms/from-video); connection   *)
(*    objects are numbered in the order in which they are accepted by the  *)
(*    server, which is also the iteration order of the Set in              *)
(*    socketsByRoom.                                                       *)
(***************************************************************************)
EXTENDS Integers, Sequences, FiniteSets, TLC

(***************************************************************************)
(* Program constants                                                       *)
(***************************************************************************)
SEEK_EPSILON_SEC == 1
CONTROL_LEASE_MS == 2000
PLAYBACK_SYNC_INTERVAL_MS == 2000
PLAYBACK_DEDUPE_WINDOW_MS == 250
SEEK_PAUSE_NOISE_WINDOW_MS == 500
MAX_NICKNAME_LEN == 32
MAX_CHAT_MESSAGES == 200

SeekEpsilonMs == SEEK_EPSILON_SEC * 1000

(***************************************************************************)
(* Bounds of the model                                                     *)
(***************************************************************************)
MaxTime == 5000
MaxRevision == 5
MaxSockets == 3
MainSockets == 2
MaxLookups == 2
MainLookups == 1
MaxBurst == 2
BurstLen == 3
MaxPosition == 6000

\* time advances in steps of the smallest timing constant of the program
Quantum == PLAYBACK_DEDUPE_WINDOW_MS

(***************************************************************************)
(* Value universes                                                         *)
(***************************************************************************)
Null == "null"
Users == {"a", "b"}
RoomIds == {"r1"}
TheToken == "t1"
Videos == {"v1", "v2"}
Infinity == 10 ^ 9
SocketIds == 1 .. MaxSockets

NoPlayback ==
  [videoId |-> Null, playbackTimeMs |-> 0, isPlaying |-> FALSE, lastUpdatedAtMs |-> 0]

(***************************************************************************)
(* Text helpers: String.prototype.trim and slice(0, n)                     *)
(***************************************************************************)
IsSpace(c) == c = " "

RECURSIVE TrimStart(_)
TrimStart(s) ==
  IF s = <<>> THEN <<>>
  ELSE IF IsSpace(Head(s)) THEN TrimStart(Tail(s)) ELSE s

RECURSIVE TrimEnd(_)
TrimEnd(s) ==
  IF s = <<>> THEN <<>>
  ELSE IF IsSpace(s[Len(s)]) THEN TrimEnd(SubSeq(s, 1, Len(s) - 1)) ELSE s

Trim(s) == TrimEnd(TrimStart(s))

Slice0(s, n) == IF Len(s) <= n THEN s ELSE SubSeq(s, 1, n)

\* a user id used as a nickname
AsText(userId) == <<userId>>

\* the absent (undefined) string of a JSON payload or query
Undefined == <<"\\undefined">>

(***************************************************************************)
(* Numbers: finite thousandths, or the saturating Infinity                 *)
(***************************************************************************)
NumAdd(p, e) == IF p = Infinity THEN Infinity ELSE p + e

Max(x, y) == IF x >= y THEN x ELSE y

\* Math.abs(p - x) > eps; Infinity - Infinity is NaN and NaN > eps is false
AbsDiffGt(p, x, eps) ==
  IF p = Infinity /\ x = Infinity THEN FALSE
  ELSE IF p = Infinity \/ x = Infinity THEN TRUE
  ELSE IF p >= x THEN p - x > eps ELSE x - p > eps

(***************************************************************************)
(* State                                                                   *)
(***************************************************************************)
VARIABLES
  now,                              \* the clock read by nowMs()
  rooms,                            \* Map roomId -> Room
  chatByRoom,                       \* Map roomId -> ChatMessage[]
  socketsByRoom,                    \* Map roomId -> Set<WebSocket>
  socketUserByConnection,           \* WeakMap WebSocket -> userId (and the handler closure)
  readyState,                       \* WebSocket -> "OPEN" | "CLOSING" | "CLOSED"
  pendingPlaybackBurstsByRoomUser,  \* Map <<roomId, userId>> -> [timeoutAt, events]
  recentPauseByRoomUser,            \* Map <<roomId, userId>> -> ms
  lookups,                          \* playback handlers suspended in await getVideoById
  nextMessageId,                    \* the ids newId() hands to chat messages
  sent,                             \* the messages written to sockets by the last step
  last,                             \* the handler that ran last, its input and outcome
  obs                               \* observer of the commands: first play, last grant, last pause

vars ==
  << now, rooms, chatByRoom, socketsByRoom, socketUserByConnection, readyState,
     pendingPlaybackBurstsByRoomUser, recentPauseByRoomUser, lookups,
     nextMessageId, sent, last, obs >>

EmptyMap == [x \in {} |-> 0]

\* m with key k set to v (Map.set), and with key k removed (Map.delete)
MapSet(m, k, v) == [x \in (DOMAIN m) \cup {k} |-> IF x = k THEN v ELSE m[x]]
MapDelete(m, k) == [x \in (DOMAIN m) \ {k} |-> m[x]]

NoLast ==
  [op |-> "none", sock |-> 0, userId |-> Null, action |-> Null, at |-> 0,
   videoId |-> Null, result |-> Null, resumed |-> FALSE,
   roomId |-> Null, inviteToken |-> Null, nickname |-> Undefined,
   message |-> Undefined, replyTo |-> Undefined]

Did(op, sock, userId, result) ==
  [NoLast EXCEPT !.op = op, !.sock = sock, !.userId = userId, !.result = result]

(***************************************************************************)
(* normalizeNickname, getMemberProfile, setNicknameForUser                 *)
(***************************************************************************)
normalizeNickname_NoSlice(value) ==
  IF value = Undefined THEN Undefined
  ELSE IF Trim(value) = <<>> THEN Undefined
  ELSE Trim(value)

normalizeNickname(value) ==
  IF value = Undefined THEN Undefined
  ELSE IF Trim(value) = <<>> THEN Undefined
  ELSE Slice0(Trim(value), MAX_NICKNAME_LEN)

\* the profile map after getMemberProfile(room, userId): a missing entry is created
getMemberProfile(memberProfiles, userId) ==
  IF userId \in DOMAIN memberProfiles THEN memberProfiles
  ELSE MapSet(memberProfiles, userId, AsText(userId))

getDisplayNameForUser_UserId(memberProfiles, userId) == AsText(userId)

getDisplayNameForUser(memberProfiles, userId) ==
  getMemberProfile(memberProfiles, userId)[userId]

\* [result, memberProfiles] of setNicknameForUser(room, userId, nickname)
setNicknameForUser(memberProfiles, userId, nickname) ==
  LET nextNickname == normalizeNickname(nickname)
      current == getMemberProfile(memberProfiles, userId)
  IN IF nextNickname = Undefined
       THEN [result |-> "invalid", memberProfiles |-> memberProfiles]
     ELSE IF current[userId] = nextNickname
       THEN [result |-> "unchanged", memberProfiles |-> current]
     ELSE [result |-> "updated",
           memberProfiles |-> MapSet(current, userId, nextNickname)]

(***************************************************************************)
(* normalizePlayback                                                       *)
(***************************************************************************)
normalizePlayback_KeepsStamp(playback, currentMs) ==
  IF ~playback.isPlaying THEN playback
  ELSE LET elapsed == Max(0, currentMs - playback.lastUpdatedAtMs)
       IN [playback EXCEPT
             !.playbackTimeMs = Max(0, NumAdd(playback.playbackTimeMs, elapsed))]

normalizePlayback_NoClamp(playback, currentMs) ==
  IF ~playback.isPlaying THEN playback
  ELSE [playback EXCEPT
          !.playbackTimeMs =
            Max(0, NumAdd(playback.playbackTimeMs, currentMs - playback.lastUpdatedAtMs)),
          !.lastUpdatedAtMs = currentMs]

normalizePlayback(playback, currentMs) ==
  IF ~playback.isPlaying THEN playback
  ELSE LET elapsed == Max(0, currentMs - playback.lastUpdatedAtMs)
       IN [playback EXCEPT
             !.playbackTimeMs = Max(0, NumAdd(playback.playbackTimeMs, elapsed)),
             !.lastUpdatedAtMs = currentMs]

(***************************************************************************)
(* roomResponse, sendWs, broadcastRoomState, sendRoomStateToSocket         *)
(***************************************************************************)
\* roomResponse calls getMemberProfile for every member: the profile map afterwards
roomResponseProfiles(room) ==
  [u \in (DOMAIN room.memberProfiles) \cup room.members |->
     IF u \in DOMAIN room.memberProfiles THEN room.memberProfiles[u] ELSE AsText(u)]

NoChat == [id |-> 0, userId |-> Null, userDisplayName |-> <<>>, message |-> <<>>,
           replyToMessageId |-> 0]

\* an outbound message; the snapshot of roomResponse is revision, playback and members
Msg(to, type) ==
  [to |-> to, type |-> type, reason |-> Null, byUserId |-> Null, action |-> Null,
   revision |-> 0, playback |-> NoPlayback, members |-> {}, error |-> Null,
   chat |-> NoChat, messages |-> <<>>]

\* ErrorMsg without the name of the error
ErrorMsg_Unnamed(to, error) == Msg(to, "error")

ErrorMsg(to, error) == [Msg(to, "error") EXCEPT !.error = error]

RoomStateMsg_StaleRevision(to, room, reason, byUserId, action) ==
  [Msg(to, "room_state") EXCEPT
     !.reason = reason, !.byUserId = byUserId, !.action = action,
     !.revision = room.revision - 1, !.playback = room.playback,
     !.members = room.members]

RoomStateMsg(to, room, reason, byUserId, action) ==
  [Msg(to, "room_state") EXCEPT
     !.reason = reason, !.byUserId = byUserId, !.action = action,
     !.revision = room.revision, !.playback = room.playback,
     !.members = room.members]

WelcomeMsg_NoLog(to, room, messages) ==
  [Msg(to, "welcome") EXCEPT
     !.revision = room.revision, !.playback = room.playback,
     !.members = room.members]

WelcomeMsg_Ahead(to, room, messages) ==
  [Msg(to, "welcome") EXCEPT
     !.revision = room.revision + 1, !.playback = room.playback,
     !.members = room.members, !.messages = messages]

\* the welcome: roomResponse and the chat log of the room
WelcomeMsg(to, room, messages) ==
  [Msg(to, "welcome") EXCEPT
     !.revision = room.revision, !.playback = room.playback,
     !.members = room.members, !.messages = messages]

RECURSIVE AscSeq(_)
\* the sockets of a Set in insertion order (connections are numbered in that order)
AscSeq(S) ==
  IF S = {} THEN <<>>
  ELSE LET m == CHOOSE x \in S : \A y \in S : x <= y
       IN <<m>> \o AscSeq(S \ {m})

\* sendWs: the payload is written only to a socket that is OPEN
sendWs(rs, msg) == IF rs[msg.to] = "OPEN" THEN <<msg>> ELSE <<>>

RECURSIVE SendEach(_, _, _)
SendEach(rs, socks, msg) ==
  IF socks = <<>> THEN <<>>
  ELSE sendWs(rs, [msg EXCEPT !.to = Head(socks)]) \o SendEach(rs, Tail(socks), msg)

RoomSockets(sbr, rid) == IF rid \in DOMAIN sbr THEN sbr[rid] ELSE {}

\* the messages of broadcastRoomState(room, request, byUserId, reason, action, excludeSocket)
broadcastRoomState(room, sbr, rs, rid, byUserId, reason, action, excludeSocket) ==
  SendEach(rs, AscSeq(RoomSockets(sbr, rid) \ {excludeSocket}),
           RoomStateMsg(0, room, reason, byUserId, action))

\* the profile map after broadcastRoomState: nothing is evaluated for a room without
\* sockets; otherwise roomResponse, and getDisplayNameForUser unless a name is passed
broadcastProfiles(room, sbr, rid, byUserId, nameGiven) ==
  IF RoomSockets(sbr, rid) = {} THEN room.memberProfiles
  ELSE IF nameGiven THEN roomResponseProfiles(room)
  ELSE getMemberProfile(roomResponseProfiles(room), byUserId)

\* the profile map after sendRoomStateToSocket (roomResponse, getDisplayNameForUser)
sendRoomStateProfiles(room, byUserId) ==
  getMemberProfile(roomResponseProfiles(room), byUserId)

(***************************************************************************)
(* acquireControlLease                                                     *)
(***************************************************************************)
LeaseGranted_AtExpiry(room, userId, currentMs) ==
  \/ room.activeControllerId = Null
  \/ room.activeControllerId = userId
  \/ currentMs >= room.activeControllerUntilMs

LeaseGranted(room, userId, currentMs) ==
  \/ room.activeControllerId = Null
  \/ room.activeControllerId = userId
  \/ currentMs > room.activeControllerUntilMs

acquireControlLease_KeepsExpiry(room, userId, currentMs) ==
  IF LeaseGranted(room, userId, currentMs)
  THEN [room EXCEPT !.activeControllerId = userId]
  ELSE room

\* acquireControlLease that renews the expiry only when the holder changes
acquireControlLease_HolderKeeps(room, userId, currentMs) ==
  IF LeaseGranted(room, userId, currentMs) /\ room.activeControllerId # userId
  THEN [room EXCEPT !.activeControllerId = userId,
                    !.activeControllerUntilMs = currentMs + CONTROL_LEASE_MS]
  ELSE room

\* the room after acquireControlLease(room, userId)
acquireControlLease(room, userId, currentMs) ==
  IF LeaseGranted(room, userId, currentMs)
  THEN [room EXCEPT !.activeControllerId = userId,
                    !.activeControllerUntilMs = currentMs + CONTROL_LEASE_MS]
  ELSE room

(***************************************************************************)
(* dedupePlaybackBurst                                                     *)
(***************************************************************************)
RECURSIVE LastSeekFrom(_, _)
\* the loop of dedupePlaybackBurst from index i downwards: the index of the last seek, 0 if none
LastSeekFrom(events, i) ==
  IF i = 0 THEN 0
  ELSE IF events[i].action = "seek" THEN i
  ELSE LastSeekFrom(events, i - 1)

dedupePlaybackBurst_KeepAll(events) == events

dedupePlaybackBurst(events) ==
  IF Len(events) <= 1 THEN events
  ELSE LET i == LastSeekFrom(events, Len(events))
       IN IF i > 0 THEN <<events[i]>> ELSE events

(***************************************************************************)
(* applyPlaybackAction                                                     *)
(***************************************************************************)
\* the atTimeSec of a payload: a JSON number (thousandths, or Infinity) or anything else
AtNumber(v) == [type |-> "number", value |-> v]
AtMissing == [type |-> "undefined", value |-> 0]

\* getVideoById: the id of the video found in the data directory, or Null
getVideoById(videoId) == IF videoId \in Videos THEN videoId ELSE Null

SeekInvalid(at) == at.type # "number" \/ at.value < 0

SeekChanges(playback, at) ==
  AbsDiffGt(playback.playbackTimeMs, at.value, SeekEpsilonMs)

Applied(playback) == [ok |-> TRUE, changed |-> TRUE, error |-> Null, playback |-> playback]
Unchanged(playback) == [ok |-> TRUE, changed |-> FALSE, error |-> Null, playback |-> playback]
Failed(playback, error) == [ok |-> FALSE, changed |-> FALSE, error |-> error, playback |-> playback]

\* play, pause, seek (and any unknown action): [ok, changed, error, playback], where
\* playback is room.playback after the call
applyPlaybackAction(roomPlayback, action, at, currentMs) ==
  LET playback == normalizePlayback(roomPlayback, currentMs)
  IN CASE action = "play" ->
            IF ~playback.isPlaying
            THEN Applied([playback EXCEPT !.isPlaying = TRUE, !.lastUpdatedAtMs = currentMs])
            ELSE Unchanged(roomPlayback)
       [] action = "pause" ->
            IF playback.isPlaying
            THEN Applied([playback EXCEPT !.isPlaying = FALSE, !.lastUpdatedAtMs = currentMs])
            ELSE Unchanged(roomPlayback)
       [] action = "seek" ->
            IF SeekInvalid(at) THEN Failed(roomPlayback, "invalid_seek_time")
            ELSE IF SeekChanges(playback, at)
            THEN Applied([playback EXCEPT !.playbackTimeMs = at.value,
                                          !.lastUpdatedAtMs = currentMs])
            ELSE Unchanged(roomPlayback)
       [] OTHER -> Unchanged(roomPlayback)

\* changeVideo after await getVideoById: playback and currentMs are the values the
\* call computed before it suspended, roomPlayback is room.playback at resumption
applyChangeVideo(roomPlayback, playback, currentMs, videoId) ==
  LET video == getVideoById(videoId)
  IN IF video = Null THEN Failed(roomPlayback, "video_not_found")
     ELSE IF playback.videoId # video
     THEN Applied([videoId |-> video, playbackTimeMs |-> 0, isPlaying |-> FALSE,
                   lastUpdatedAtMs |-> currentMs])
     ELSE Unchanged(roomPlayback)

(***************************************************************************)
(* removeMemberFromRoom, hasOpenSocketForUser                              *)
(***************************************************************************)
removeMemberFromRoom_KeepsLease(room, userId) ==
  IF userId \notin room.members THEN room
  ELSE [room EXCEPT
          !.members = @ \ {userId},
          !.memberProfiles = MapDelete(@, userId),
          !.revision = @ + 1]

removeMemberFromRoom_RevisionDown(room, userId) ==
  IF userId \notin room.members THEN room
  ELSE [room EXCEPT
          !.members = @ \ {userId},
          !.memberProfiles = MapDelete(@, userId),
          !.activeControllerId = IF @ = userId THEN Null ELSE @,
          !.activeControllerUntilMs = IF room.activeControllerId = userId THEN 0 ELSE @,
          !.revision = @ - 1]

removeMemberFromRoom(room, userId) ==
  IF userId \notin room.members THEN room
  ELSE [room EXCEPT
          !.members = @ \ {userId},
          !.memberProfiles = MapDelete(@, userId),
          !.activeControllerId = IF @ = userId THEN Null ELSE @,
          !.activeControllerUntilMs = IF room.activeControllerId = userId THEN 0 ELSE @,
          !.revision = @ + 1]

hasOpenSocketForUser_AnyUser(sbr, subc, rid, userId, excludeSocket) ==
  RoomSockets(sbr, rid) \ {excludeSocket} # {}

hasOpenSocketForUser(sbr, subc, rid, userId, excludeSocket) ==
  \E socket \in RoomSockets(sbr, rid) \ {excludeSocket} : subc[socket] = userId

(***************************************************************************)
(* Observer: what the commands received so far were.  It records, beside   *)
(* the program, the first playback command of a new room when that is an   *)
(* applied play, the last granted playback command, and the last pause     *)
(* that stopped the room.                                                  *)
(***************************************************************************)
NoFirstPlay == [phase |-> "none", at |-> 0, by |-> Null]
FreshRoom == [NoFirstPlay EXCEPT !.phase = "fresh"]
Spoiled == [NoFirstPlay EXCEPT !.phase = "spoiled"]
NoGrant == [userId |-> Null, at |-> 0]
NoPause == [userId |-> Null, at |-> 0, changedVideo |-> FALSE, left |-> FALSE]
NoObs == [play |-> NoFirstPlay, grant |-> NoGrant, pause |-> NoPause]

\* after a playback, chat or profile command was received
AfterCommand(fp, isAppliedPlay, userId, currentMs) ==
  IF fp.phase = "fresh" /\ isAppliedPlay
  THEN [phase |-> "played", at |-> currentMs, by |-> userId]
  ELSE IF fp.phase = "none" THEN fp ELSE Spoiled

ObsCommand(o, isAppliedPlay, userId, currentMs) ==
  [o EXCEPT !.play = AfterCommand(@, isAppliedPlay, userId, currentMs)]

ObsGrant(o, granted, userId, currentMs) ==
  IF granted THEN [o EXCEPT !.grant = [userId |-> userId, at |-> currentMs]] ELSE o

ObsPause(o, isAppliedPause, userId, currentMs) ==
  IF isAppliedPause
  THEN [o EXCEPT !.pause = [NoPause EXCEPT !.userId = userId, !.at = currentMs]]
  ELSE o

ObsRemoved(o, didLeave, userId) ==
  IF ~didLeave THEN o
  ELSE [o EXCEPT !.grant = IF @.userId = userId THEN NoGrant ELSE @,
                 !.pause = IF @.userId = userId THEN [@ EXCEPT !.left = TRUE] ELSE @]

ObsVideoChanged(o, userId) ==
  [o EXCEPT !.pause = IF @.userId = userId THEN [@ EXCEPT !.changedVideo = TRUE] ELSE @]

(***************************************************************************)
(* Initial state: the process has started, no room exists                  *)
(***************************************************************************)
Init ==
  /\ now = 0
  /\ rooms = EmptyMap
  /\ chatByRoom = EmptyMap
  /\ socketsByRoom = EmptyMap
  /\ socketUserByConnection = EmptyMap
  /\ readyState = EmptyMap
  /\ pendingPlaybackBurstsByRoomUser = EmptyMap
  /\ recentPauseByRoomUser = EmptyMap
  /\ lookups = <<>>
  /\ nextMessageId = 1
  /\ sent = <<>>
  /\ last = NoLast
  /\ obs = NoObs

\* the connection object of the next connection attempt
NewSocket == Cardinality(DOMAIN readyState) + 1

\* the sockets whose message and close handlers are registered and whose close
\* handler has not run
Registered == DOMAIN socketUserByConnection

RoomOf(socket) == CHOOSE rid \in DOMAIN socketsByRoom : socket \in socketsByRoom[rid]

(***************************************************************************)
(* POST /rooms/from-video                                                  *)
(***************************************************************************)
CreateRoom(creatorId, videoId, creatorNickname) ==
  /\ RoomIds \ DOMAIN rooms # {}
  /\ LET rid == CHOOSE r \in RoomIds : r \notin DOMAIN rooms
         video == getVideoById(videoId)
         nick == normalizeNickname(creatorNickname)
         room == [creatorId |-> creatorId,
                  inviteToken |-> TheToken,
                  members |-> {creatorId},
                  memberProfiles |->
                    MapSet(EmptyMap, creatorId,
                           IF nick = Undefined THEN AsText(creatorId) ELSE nick),
                  playback |-> [videoId |-> video, playbackTimeMs |-> 0,
                                isPlaying |-> FALSE, lastUpdatedAtMs |-> now],
                  revision |-> 1,
                  activeControllerId |-> creatorId,
                  activeControllerUntilMs |-> now + CONTROL_LEASE_MS]
     IN IF video = Null
        THEN /\ last' = Did("create", 0, creatorId, "video_not_found")
             /\ UNCHANGED << rooms, chatByRoom, obs >>
        ELSE /\ rooms' = MapSet(rooms, rid, room)
             /\ chatByRoom' = MapSet(chatByRoom, rid, <<>>)
             /\ last' = Did("create", 0, creatorId, "created")
             /\ obs' = [obs EXCEPT !.play = FreshRoom]
  /\ sent' = <<>>
  /\ UNCHANGED << now, socketsByRoom, socketUserByConnection, readyState,
                  pendingPlaybackBurstsByRoomUser, recentPauseByRoomUser, lookups,
                  nextMessageId >>

(***************************************************************************)
(* GET /rooms/:roomId/ws: admission, join, welcome                         *)
(***************************************************************************)
AdmissionError_TokenFirst(roomId, userId, inviteToken) ==
  IF roomId = Null \/ roomId \notin DOMAIN rooms THEN "room_not_found"
  ELSE IF inviteToken # rooms[roomId].inviteToken THEN "invalid_invite_token"
  ELSE IF userId = "" THEN "missing_user_id"
  ELSE Null

\* the error of the admission checks, Null when the connection is admitted
AdmissionError(roomId, userId, inviteToken) ==
  IF roomId = Null \/ roomId \notin DOMAIN rooms THEN "room_not_found"
  ELSE IF userId = "" THEN "missing_user_id"
  ELSE IF inviteToken # rooms[roomId].inviteToken THEN "invalid_invite_token"
  ELSE Null

JoinRoom_NoBump(room, userId, nickname, currentMs) ==
  [room EXCEPT !.members = @ \cup {userId},
               !.memberProfiles = getMemberProfile(@, userId),
               !.playback = normalizePlayback(@, currentMs)]

\* the room after the join of an admitted connection (lines 1003-1015)
JoinRoom(room, userId, nickname, currentMs) ==
  LET withMember == [room EXCEPT !.members = @ \cup {userId}]
      set == setNicknameForUser(withMember.memberProfiles, userId, nickname)
  IN IF nickname # Undefined /\ nickname # <<>>
     THEN IF set.result = "invalid" THEN withMember
          ELSE [withMember EXCEPT
                  !.memberProfiles = set.memberProfiles,
                  !.playback = normalizePlayback(@, currentMs),
                  !.revision = @ + 1]
     ELSE [withMember EXCEPT
             !.memberProfiles = getMemberProfile(@, userId),
             !.playback = normalizePlayback(@, currentMs),
             !.revision = @ + 1]

NicknameRejected(room, userId, nickname) ==
  /\ nickname # Undefined /\ nickname # <<>>
  /\ setNicknameForUser(room.memberProfiles, userId, nickname).result = "invalid"

Connect(roomId, userId, inviteToken, nickname) ==
  /\ NewSocket <= MaxSockets
  /\ LET socket == NewSocket
         error == AdmissionError(roomId, userId, inviteToken)
         did == [Did("connect", socket, userId, Null) EXCEPT
                   !.roomId = roomId, !.inviteToken = inviteToken,
                   !.nickname = nickname]
     IN IF error # Null
        THEN /\ sent' = <<ErrorMsg(socket, error)>>
             /\ readyState' = MapSet(readyState, socket, "CLOSING")
             /\ last' = [did EXCEPT !.result = error]
             /\ UNCHANGED << rooms, socketsByRoom, socketUserByConnection >>
        ELSE IF NicknameRejected(rooms[roomId], userId, nickname)
        THEN /\ rooms' = [rooms EXCEPT ![roomId] = JoinRoom(@, userId, nickname, now)]
             /\ sent' = <<ErrorMsg(socket, "invalid_nickname")>>
             /\ readyState' = MapSet(readyState, socket, "CLOSING")
             /\ last' = [did EXCEPT !.result = "invalid_nickname"]
             /\ UNCHANGED << socketsByRoom, socketUserByConnection >>
        ELSE LET joined == JoinRoom(rooms[roomId], userId, nickname, now)
                 sbr == MapSet(socketsByRoom, roomId,
                               RoomSockets(socketsByRoom, roomId) \cup {socket})
                 rs == MapSet(readyState, socket, "OPEN")
                 welcomed == [joined EXCEPT !.memberProfiles = roomResponseProfiles(joined)]
             IN /\ rooms' = [rooms EXCEPT ![roomId] =
                               [welcomed EXCEPT !.memberProfiles =
                                  broadcastProfiles(welcomed, sbr, roomId, userId, FALSE)]]
                /\ socketsByRoom' = sbr
                /\ socketUserByConnection' = MapSet(socketUserByConnection, socket, userId)
                /\ readyState' = rs
                /\ sent' = sendWs(rs, WelcomeMsg(socket, welcomed,
                                                 IF roomId \in DOMAIN chatByRoom
                                                 THEN chatByRoom[roomId] ELSE <<>>))
                           \o broadcastRoomState(welcomed, sbr, rs, roomId, userId,
                                                 "join", Null, socket)
                /\ last' = [did EXCEPT !.result = "joined"]
  /\ UNCHANGED << now, chatByRoom, pendingPlaybackBurstsByRoomUser,
                  recentPauseByRoomUser, lookups, nextMessageId, obs >>

(***************************************************************************)
(* socket.on("close")                                                      *)
(***************************************************************************)
DropKey_Keeps(m, rid, userId, didLeave) == m

\* a map without the entry of a removed member (clearTimeout + delete, delete)
DropKey(m, rid, userId, didLeave) ==
  IF didLeave THEN MapDelete(m, <<rid, userId>>) ELSE m

Close(socket) ==
  /\ socket \in Registered
  /\ LET rid == RoomOf(socket)
         userId == socketUserByConnection[socket]
         rest == socketsByRoom[rid] \ {socket}
         sbr == IF rest = {} THEN MapDelete(socketsByRoom, rid)
                ELSE MapSet(socketsByRoom, rid, rest)
         rs == MapSet(readyState, socket, "CLOSED")
         room == rooms[rid]
         named == [room EXCEPT !.memberProfiles = getMemberProfile(@, userId)]
         didLeave == userId \in room.members
         removed == removeMemberFromRoom(named, userId)
     IN /\ socketsByRoom' = sbr
        /\ readyState' = rs
        /\ socketUserByConnection' = MapDelete(socketUserByConnection, socket)
        /\ IF hasOpenSocketForUser(sbr, socketUserByConnection, rid, userId, socket)
           THEN /\ sent' = <<>>
                /\ last' = Did("close", socket, userId, "other_socket_open")
                /\ UNCHANGED << rooms, pendingPlaybackBurstsByRoomUser,
                                recentPauseByRoomUser, obs >>
           ELSE /\ rooms' = [rooms EXCEPT ![rid] =
                               IF didLeave
                               THEN [removed EXCEPT !.memberProfiles =
                                       broadcastProfiles(removed, sbr, rid, userId, TRUE)]
                               ELSE removed]
                /\ pendingPlaybackBurstsByRoomUser' =
                     DropKey(pendingPlaybackBurstsByRoomUser, rid, userId, didLeave)
                /\ recentPauseByRoomUser' =
                     DropKey(recentPauseByRoomUser, rid, userId, didLeave)
                /\ sent' = IF didLeave
                           THEN broadcastRoomState(removed, sbr, rs, rid, userId,
                                                   "leave", Null, 0)
                           ELSE <<>>
                /\ last' = Did("close", socket, userId,
                               IF didLeave THEN "left" ELSE "not_member")
                /\ obs' = ObsRemoved(obs, didLeave, userId)
  /\ UNCHANGED << now, chatByRoom, lookups, nextMessageId >>

(***************************************************************************)
(* POST /rooms/:roomId/leave                                               *)
(***************************************************************************)
LeaveError(roomId, userId, inviteToken) ==
  IF userId = "" THEN "missing_user_id"
  ELSE IF roomId \notin DOMAIN rooms THEN "room_not_found"
  ELSE IF inviteToken # rooms[roomId].inviteToken THEN "invalid_invite_token"
  ELSE Null

\* socket.close(1000, "left_room") on every socket of the user in the room
CloseSocketsOf(rs, sbr, subc, rid, userId) ==
  [socket \in DOMAIN rs |->
     IF socket \in RoomSockets(sbr, rid) /\ subc[socket] = userId /\ rs[socket] = "OPEN"
     THEN "CLOSING" ELSE rs[socket]]

HttpLeave(roomId, userId, inviteToken) ==
  /\ LET error == LeaveError(roomId, userId, inviteToken)
     IN IF error # Null
        THEN /\ last' = Did("leave", 0, userId, error)
             /\ sent' = <<>>
             /\ UNCHANGED << rooms, readyState, pendingPlaybackBurstsByRoomUser,
                             recentPauseByRoomUser, obs >>
        ELSE LET room == rooms[roomId]
                 named == [room EXCEPT !.memberProfiles = getMemberProfile(@, userId)]
                 didLeave == userId \in room.members
                 removed == removeMemberFromRoom(named, userId)
                 told == IF didLeave
                         THEN [removed EXCEPT !.memberProfiles =
                                 broadcastProfiles(removed, socketsByRoom, roomId,
                                                   userId, TRUE)]
                         ELSE removed
             IN /\ rooms' = [rooms EXCEPT ![roomId] =
                               [told EXCEPT !.memberProfiles = roomResponseProfiles(told)]]
                /\ pendingPlaybackBurstsByRoomUser' =
                     DropKey(pendingPlaybackBurstsByRoomUser, roomId, userId, didLeave)
                /\ recentPauseByRoomUser' =
                     DropKey(recentPauseByRoomUser, roomId, userId, didLeave)
                /\ sent' = IF didLeave
                           THEN broadcastRoomState(removed, socketsByRoom, readyState,
                                                   roomId, userId, "leave", Null, 0)
                           ELSE <<>>
                /\ readyState' = CloseSocketsOf(readyState, socketsByRoom,
                                                socketUserByConnection, roomId, userId)
                /\ last' = Did("leave", 0, userId,
                               IF didLeave THEN "left" ELSE "not_member")
                /\ obs' = ObsRemoved(obs, didLeave, userId)
  /\ UNCHANGED << now, chatByRoom, socketsByRoom, socketUserByConnection, lookups,
                  nextMessageId >>

(***************************************************************************)
(* socket.on("message"): invalid JSON, ping, sync, profile                 *)
(***************************************************************************)
InvalidJson(socket) ==
  /\ socket \in Registered
  /\ sent' = sendWs(readyState, ErrorMsg(socket, "invalid_json"))
  /\ last' = Did("invalid_json", socket, socketUserByConnection[socket], "invalid_json")
  /\ UNCHANGED << now, rooms, chatByRoom, socketsByRoom, socketUserByConnection,
                  readyState, pendingPlaybackBurstsByRoomUser, recentPauseByRoomUser,
                  lookups, nextMessageId, obs >>

Ping(socket) ==
  /\ socket \in Registered
  /\ sent' = sendWs(readyState, Msg(socket, "pong"))
  /\ last' = Did("ping", socket, socketUserByConnection[socket], "pong")
  /\ UNCHANGED << now, rooms, chatByRoom, socketsByRoom, socketUserByConnection,
                  readyState, pendingPlaybackBurstsByRoomUser, recentPauseByRoomUser,
                  lookups, nextMessageId, obs >>

\* Sync that answers without storing the extrapolated playback
Sync_KeepsPlayback(socket) ==
  /\ socket \in Registered
  /\ LET rid == RoomOf(socket)
         userId == socketUserByConnection[socket]
         synced == [rooms[rid] EXCEPT !.playback = normalizePlayback(@, now)]
     IN /\ rooms' = [rooms EXCEPT ![rid].memberProfiles =
                       sendRoomStateProfiles(rooms[rid], userId)]
        /\ sent' = sendWs(readyState, RoomStateMsg(socket, synced, "sync", userId, Null))
        /\ last' = Did("sync", socket, userId, "synced")
  /\ UNCHANGED << now, chatByRoom, socketsByRoom, socketUserByConnection, readyState,
                  pendingPlaybackBurstsByRoomUser, recentPauseByRoomUser, lookups,
                  nextMessageId, obs >>

Sync(socket) ==
  /\ socket \in Registered
  /\ LET rid == RoomOf(socket)
         userId == socketUserByConnection[socket]
         synced == [rooms[rid] EXCEPT !.playback = normalizePlayback(@, now)]
     IN /\ rooms' = [rooms EXCEPT ![rid] =
                       [synced EXCEPT !.memberProfiles =
                          sendRoomStateProfiles(synced, userId)]]
        /\ sent' = sendWs(readyState, RoomStateMsg(socket, synced, "sync", userId, Null))
        /\ last' = Did("sync", socket, userId, "synced")
  /\ UNCHANGED << now, chatByRoom, socketsByRoom, socketUserByConnection, readyState,
                  pendingPlaybackBurstsByRoomUser, recentPauseByRoomUser, lookups,
                  nextMessageId, obs >>

Profile(socket, action, nickname) ==
  /\ socket \in Registered
  /\ LET rid == RoomOf(socket)
         userId == socketUserByConnection[socket]
         room == rooms[rid]
         set == setNicknameForUser(room.memberProfiles, userId, nickname)
         updated == [room EXCEPT !.memberProfiles = set.memberProfiles,
                                 !.revision = @ + 1]
         told == [updated EXCEPT !.memberProfiles =
                    broadcastProfiles(updated, socketsByRoom, rid, userId, FALSE)]
         did == [Did("profile", socket, userId, Null) EXCEPT !.nickname = nickname]
     IN IF action # "setNickname"
        THEN /\ sent' = sendWs(readyState, ErrorMsg(socket, "invalid_profile_action"))
             /\ last' = [did EXCEPT !.result = "invalid_profile_action"]
             /\ UNCHANGED rooms
        ELSE IF set.result = "invalid"
        THEN /\ sent' = sendWs(readyState, ErrorMsg(socket, "invalid_nickname"))
             /\ last' = [did EXCEPT !.result = "invalid_nickname"]
             /\ UNCHANGED rooms
        ELSE IF set.result = "unchanged"
        THEN /\ sent' = <<>>
             /\ last' = [did EXCEPT !.result = "unchanged"]
             /\ rooms' = [rooms EXCEPT ![rid].memberProfiles = set.memberProfiles]
        ELSE /\ rooms' = [rooms EXCEPT ![rid] =
                            [told EXCEPT !.memberProfiles =
                               sendRoomStateProfiles(told, userId)]]
             /\ sent' = broadcastRoomState(updated, socketsByRoom, readyState, rid,
                                           userId, "nickname_change", Null, socket)
                        \o sendWs(readyState,
                                  RoomStateMsg(socket, updated, "nickname_change",
                                               userId, Null))
             /\ last' = [did EXCEPT !.result = "updated"]
  /\ obs' = ObsCommand(obs, FALSE, Null, now)
  /\ UNCHANGED << now, chatByRoom, socketsByRoom, socketUserByConnection, readyState,
                  pendingPlaybackBurstsByRoomUser, recentPauseByRoomUser, lookups,
                  nextMessageId >>

(***************************************************************************)
(* socket.on("message"): playback                                          *)
(***************************************************************************)
enqueuePlaybackBurstEvent_KeepsTimer(pending, rid, userId, action, excludeSocket, currentMs) ==
  LET key == <<rid, userId>>
      event == [action |-> action, excludeSocket |-> excludeSocket]
  IN MapSet(pending, key,
            IF key \in DOMAIN pending
            THEN [pending[key] EXCEPT !.events = Append(@, event)]
            ELSE [timeoutAt |-> currentMs + PLAYBACK_DEDUPE_WINDOW_MS,
                  events |-> <<event>>])

\* enqueuePlaybackBurstEvent: the pending bursts afterwards
enqueuePlaybackBurstEvent(pending, rid, userId, action, excludeSocket, currentMs) ==
  LET key == <<rid, userId>>
      event == [action |-> action, excludeSocket |-> excludeSocket]
  IN MapSet(pending, key,
            [timeoutAt |-> currentMs + PLAYBACK_DEDUPE_WINDOW_MS,
             events |-> IF key \in DOMAIN pending
                        THEN Append(pending[key].events, event)
                        ELSE <<event>>])

\* recentPauseByRoomUser after lines 1141-1145
NotePause(recent, key, action, wasPlaying, currentMs) ==
  IF action = "pause" /\ wasPlaying THEN MapSet(recent, key, currentMs)
  ELSE IF action # "seek" THEN MapDelete(recent, key)
  ELSE recent

ResumesAfterScrub_StrictWindow(room, action, recent, key, currentMs) ==
  /\ action = "seek"
  /\ ~room.playback.isPlaying
  /\ key \in DOMAIN recent
  /\ currentMs - recent[key] < SEEK_PAUSE_NOISE_WINDOW_MS

\* the condition of lines 1147-1152: a seek landed on a paused room within the noise
\* window of a pause of the same user
ResumesAfterScrub(room, action, recent, key, currentMs) ==
  /\ action = "seek"
  /\ ~room.playback.isPlaying
  /\ key \in DOMAIN recent
  /\ currentMs - recent[key] <= SEEK_PAUSE_NOISE_WINDOW_MS

ResumeAfterScrub_OneBump(room, action, recent, key, currentMs) ==
  IF ResumesAfterScrub(room, action, recent, key, currentMs)
  THEN [room EXCEPT !.playback.isPlaying = TRUE,
                    !.playback.lastUpdatedAtMs = currentMs]
  ELSE room

\* the room after lines 1147-1161
ResumeAfterScrub(room, action, recent, key, currentMs) ==
  IF ResumesAfterScrub(room, action, recent, key, currentMs)
  THEN [room EXCEPT !.playback.isPlaying = TRUE,
                    !.playback.lastUpdatedAtMs = currentMs,
                    !.revision = @ + 1]
  ELSE room

\* recentPauseByRoomUser after lines 1147-1161
ForgetPause(room, action, recent, key) ==
  IF action = "seek" /\ ~room.playback.isPlaying THEN MapDelete(recent, key) ELSE recent

\* a play, pause or seek message (or a playback message with an unknown action)
Playback(socket, action, at) ==
  /\ socket \in Registered
  /\ LET rid == RoomOf(socket)
         userId == socketUserByConnection[socket]
         key == <<rid, userId>>
         room == rooms[rid]
         leased == acquireControlLease(room, userId, now)
         result == applyPlaybackAction(leased.playback, action, at, now)
         applied == [leased EXCEPT !.playback = result.playback, !.revision = @ + 1]
         noted == NotePause(recentPauseByRoomUser, key, action, room.playback.isPlaying, now)
         final == ResumeAfterScrub(applied, action, noted, key, now)
         did == [Did("playback", socket, userId, Null) EXCEPT !.action = action, !.at = at]
     IN IF ~LeaseGranted(room, userId, now)
        THEN /\ sent' = <<>>
             /\ last' = [did EXCEPT !.result = "denied"]
             /\ obs' = ObsCommand(obs, FALSE, userId, now)
             /\ UNCHANGED << rooms, recentPauseByRoomUser, pendingPlaybackBurstsByRoomUser >>
        ELSE IF ~result.ok
        THEN /\ rooms' = [rooms EXCEPT ![rid] = leased]
             /\ sent' = sendWs(readyState, ErrorMsg(socket, result.error))
             /\ last' = [did EXCEPT !.result = result.error]
             /\ obs' = ObsGrant(ObsCommand(obs, FALSE, userId, now), TRUE, userId, now)
             /\ UNCHANGED << recentPauseByRoomUser, pendingPlaybackBurstsByRoomUser >>
        ELSE IF ~result.changed
        THEN /\ rooms' = [rooms EXCEPT ![rid] = leased]
             /\ sent' = <<>>
             /\ last' = [did EXCEPT !.result = "noop"]
             /\ obs' = ObsGrant(ObsCommand(obs, FALSE, userId, now), TRUE, userId, now)
             /\ UNCHANGED << recentPauseByRoomUser, pendingPlaybackBurstsByRoomUser >>
        ELSE /\ rooms' = [rooms EXCEPT ![rid] =
                            [final EXCEPT !.memberProfiles =
                               sendRoomStateProfiles(final, userId)]]
             /\ recentPauseByRoomUser' = ForgetPause(applied, action, noted, key)
             /\ sent' = sendWs(readyState,
                               RoomStateMsg(socket, final, "playback", userId, action))
             /\ pendingPlaybackBurstsByRoomUser' =
                  enqueuePlaybackBurstEvent(pendingPlaybackBurstsByRoomUser, rid, userId,
                                            action, socket, now)
             /\ last' = [did EXCEPT !.result = "applied",
                                    !.resumed = ResumesAfterScrub(applied, action, noted, key, now)]
             /\ obs' = ObsPause(ObsGrant(ObsCommand(obs, action = "play", userId, now),
                                          TRUE, userId, now),
                                 action = "pause", userId, now)
  /\ UNCHANGED << now, chatByRoom, socketsByRoom, socketUserByConnection, readyState,
                  lookups, nextMessageId >>

\* a changeVideo message up to await getVideoById
ChangeVideo(socket, videoId) ==
  /\ socket \in Registered
  /\ LET rid == RoomOf(socket)
         userId == socketUserByConnection[socket]
         room == rooms[rid]
         leased == acquireControlLease(room, userId, now)
         did == [Did("playback", socket, userId, Null) EXCEPT
                   !.action = "changeVideo", !.videoId = videoId]
     IN IF ~LeaseGranted(room, userId, now)
        THEN /\ sent' = <<>>
             /\ last' = [did EXCEPT !.result = "denied"]
             /\ UNCHANGED << rooms, lookups >>
        ELSE IF videoId = ""
        THEN /\ rooms' = [rooms EXCEPT ![rid] = leased]
             /\ sent' = sendWs(readyState, ErrorMsg(socket, "missing_video_id"))
             /\ last' = [did EXCEPT !.result = "missing_video_id"]
             /\ UNCHANGED lookups
        ELSE /\ rooms' = [rooms EXCEPT ![rid] = leased]
             /\ lookups' = Append(lookups,
                              [socket |-> socket, userId |-> userId, roomId |-> rid,
                               videoId |-> videoId,
                               playback |-> normalizePlayback(leased.playback, now),
                               currentMs |-> now])
             /\ sent' = <<>>
             /\ last' = [did EXCEPT !.result = "pending"]
  /\ obs' = ObsGrant(ObsCommand(obs, FALSE, Null, now),
                     LeaseGranted(rooms[RoomOf(socket)], socketUserByConnection[socket], now),
                     socketUserByConnection[socket], now)
  /\ UNCHANGED << now, chatByRoom, socketsByRoom, socketUserByConnection, readyState,
                  pendingPlaybackBurstsByRoomUser, recentPauseByRoomUser, nextMessageId >>

RemoveAt(seq, i) == SubSeq(seq, 1, i - 1) \o SubSeq(seq, i + 1, Len(seq))

\* getVideoById resolves: the suspended changeVideo handler runs to its end
LookupDone(i) ==
  /\ i \in 1 .. Len(lookups)
  /\ LET lk == lookups[i]
         rid == lk.roomId
         room == rooms[rid]
         result == applyChangeVideo(room.playback, lk.playback, lk.currentMs, lk.videoId)
         applied == [room EXCEPT !.playback = result.playback, !.revision = @ + 1]
         echoed == [applied EXCEPT !.memberProfiles = sendRoomStateProfiles(applied, lk.userId)]
         did == [Did("lookup", lk.socket, lk.userId, Null) EXCEPT
                   !.action = "changeVideo", !.videoId = lk.videoId]
     IN /\ lookups' = RemoveAt(lookups, i)
        /\ IF ~result.ok
           THEN /\ sent' = sendWs(readyState, ErrorMsg(lk.socket, result.error))
                /\ last' = [did EXCEPT !.result = result.error]
                /\ UNCHANGED << rooms, recentPauseByRoomUser, obs >>
           ELSE IF ~result.changed
           THEN /\ sent' = <<>>
                /\ last' = [did EXCEPT !.result = "noop"]
                /\ UNCHANGED << rooms, recentPauseByRoomUser, obs >>
           ELSE /\ rooms' = [rooms EXCEPT ![rid] =
                               [echoed EXCEPT !.memberProfiles =
                                  broadcastProfiles(echoed, socketsByRoom, rid,
                                                    lk.userId, FALSE)]]
                /\ recentPauseByRoomUser' =
                     MapDelete(recentPauseByRoomUser, <<rid, lk.userId>>)
                /\ sent' = sendWs(readyState,
                                  RoomStateMsg(lk.socket, applied, "video_change",
                                               lk.userId, "changeVideo"))
                           \o broadcastRoomState(applied, socketsByRoom, readyState, rid,
                                                 lk.userId, "video_change", "changeVideo",
                                                 lk.socket)
                /\ last' = [did EXCEPT !.result = "applied"]
                /\ obs' = ObsVideoChanged(obs, lk.userId)
  /\ UNCHANGED << now, chatByRoom, socketsByRoom, socketUserByConnection, readyState,
                  pendingPlaybackBurstsByRoomUser, nextMessageId >>

(***************************************************************************)
(* socket.on("message"): chat                                              *)
(***************************************************************************)
\* the text of the id newId() returns for the n-th chat message
IdText(n) == <<ToString(n)>>

ChatError_AnyReply(roomMessages, message, replyTo) ==
  LET replyToMessageId == IF replyTo = Undefined THEN Undefined ELSE Trim(replyTo)
  IN IF Trim(message) = <<>> THEN "message_empty"
     ELSE IF replyToMessageId = <<>> THEN "invalid_reply_message_id"
     ELSE Null

ChatError(roomMessages, message, replyTo) ==
  LET replyToMessageId == IF replyTo = Undefined THEN Undefined ELSE Trim(replyTo)
  IN IF Trim(message) = <<>> THEN "message_empty"
     ELSE IF replyToMessageId = <<>> THEN "invalid_reply_message_id"
     ELSE IF /\ replyToMessageId # Undefined
             /\ ~\E i \in 1 .. Len(roomMessages) : roomMessages[i].id = replyToMessageId
     THEN "reply_message_not_found"
     ELSE Null

PushMessage_NoShift(roomMessages, newMessage) == Append(roomMessages, newMessage)

\* PushMessage that puts the new message in front of the log
PushMessage_Front(roomMessages, newMessage) ==
  LET pushed == <<newMessage>> \o roomMessages
  IN IF Len(pushed) > MAX_CHAT_MESSAGES THEN SubSeq(pushed, 1, MAX_CHAT_MESSAGES) ELSE pushed

\* push, then shift once the log is longer than the limit
PushMessage(roomMessages, newMessage) ==
  LET pushed == Append(roomMessages, newMessage)
  IN IF Len(pushed) > MAX_CHAT_MESSAGES THEN Tail(pushed) ELSE pushed

Chat(socket, message, replyTo) ==
  /\ socket \in Registered
  /\ LET rid == RoomOf(socket)
         userId == socketUserByConnection[socket]
         room == rooms[rid]
         roomMessages == IF rid \in DOMAIN chatByRoom THEN chatByRoom[rid] ELSE <<>>
         error == ChatError(roomMessages, message, replyTo)
         newMessage == [id |-> IdText(nextMessageId),
                        userId |-> userId,
                        userDisplayName |-> getDisplayNameForUser(room.memberProfiles, userId),
                        message |-> Trim(message),
                        replyToMessageId |->
                          IF replyTo = Undefined THEN Undefined ELSE Trim(replyTo)]
         posted == [room EXCEPT !.memberProfiles = getMemberProfile(@, userId),
                                !.revision = @ + 1]
         did == [Did("chat", socket, userId, Null) EXCEPT
                   !.message = message, !.replyTo = replyTo]
     IN IF error # Null
        THEN /\ sent' = sendWs(readyState, ErrorMsg(socket, error))
             /\ last' = [did EXCEPT !.result = error]
             /\ UNCHANGED << rooms, chatByRoom, nextMessageId >>
        ELSE /\ chatByRoom' = MapSet(chatByRoom, rid, PushMessage(roomMessages, newMessage))
             /\ rooms' = [rooms EXCEPT ![rid] = posted]
             /\ nextMessageId' = nextMessageId + 1
             /\ sent' = SendEach(readyState, AscSeq(RoomSockets(socketsByRoom, rid)),
                                 [Msg(0, "chat_message") EXCEPT
                                    !.chat = newMessage, !.revision = posted.revision])
             /\ last' = [did EXCEPT !.result = "posted"]
  /\ obs' = ObsCommand(obs, FALSE, Null, now)
  /\ UNCHANGED << now, socketsByRoom, socketUserByConnection, readyState,
                  pendingPlaybackBurstsByRoomUser, recentPauseByRoomUser, lookups >>

(***************************************************************************)
(* Timers: the debounce timeout and the periodic sync interval             *)
(***************************************************************************)
RECURSIVE BroadcastEvents(_, _, _, _, _, _)
\* the loop of flushPendingPlaybackBurst over the deduplicated events
BroadcastEvents(events, room, sbr, rs, rid, userId) ==
  IF events = <<>> THEN <<>>
  ELSE broadcastRoomState(room, sbr, rs, rid, userId, "playback",
                          Head(events).action, Head(events).excludeSocket)
       \o BroadcastEvents(Tail(events), room, sbr, rs, rid, userId)

\* FlushTimer that leaves the entry in the map
FlushTimer_KeepsEntry(rid, userId) ==
  /\ <<rid, userId>> \in DOMAIN pendingPlaybackBurstsByRoomUser
  /\ now >= pendingPlaybackBurstsByRoomUser[<<rid, userId>>].timeoutAt
  /\ LET pending == pendingPlaybackBurstsByRoomUser[<<rid, userId>>]
         dedupedEvents == dedupePlaybackBurst(pending.events)
         room == rooms[rid]
     IN /\ rooms' = [rooms EXCEPT ![rid].memberProfiles =
                       broadcastProfiles(room, socketsByRoom, rid, userId, FALSE)]
        /\ sent' = BroadcastEvents(dedupedEvents, room, socketsByRoom, readyState,
                                   rid, userId)
        /\ last' = Did("flush", 0, userId, "flushed")
  /\ UNCHANGED << now, chatByRoom, socketsByRoom, socketUserByConnection, readyState,
                  pendingPlaybackBurstsByRoomUser, recentPauseByRoomUser, lookups,
                  nextMessageId, obs >>

\* the debounce timeout of (roomId, userId) fires: flushPendingPlaybackBurst
FlushTimer(rid, userId) ==
  /\ <<rid, userId>> \in DOMAIN pendingPlaybackBurstsByRoomUser
  /\ now >= pendingPlaybackBurstsByRoomUser[<<rid, userId>>].timeoutAt
  /\ LET pending == pendingPlaybackBurstsByRoomUser[<<rid, userId>>]
         dedupedEvents == dedupePlaybackBurst(pending.events)
         room == rooms[rid]
     IN /\ pendingPlaybackBurstsByRoomUser' =
             MapDelete(pendingPlaybackBurstsByRoomUser, <<rid, userId>>)
        /\ rooms' = [rooms EXCEPT ![rid].memberProfiles =
                       broadcastProfiles(room, socketsByRoom, rid, userId, FALSE)]
        /\ sent' = BroadcastEvents(dedupedEvents, room, socketsByRoom, readyState,
                                   rid, userId)
        /\ last' = Did("flush", 0, userId, "flushed")
  /\ UNCHANGED << now, chatByRoom, socketsByRoom, socketUserByConnection, readyState,
                  recentPauseByRoomUser, lookups, nextMessageId, obs >>

SkippedBySync_StrictWindow(room, sbr, subc, rid, currentMs) ==
  IF room.activeControllerId # Null /\ currentMs < room.activeControllerUntilMs
  THEN {socket \in RoomSockets(sbr, rid) : subc[socket] = room.activeControllerId}
  ELSE {}

\* the sockets the periodic sync skips: those of the lease holder within the lease
SkippedBySync(room, sbr, subc, rid, currentMs) ==
  IF room.activeControllerId # Null /\ currentMs <= room.activeControllerUntilMs
  THEN {socket \in RoomSockets(sbr, rid) : subc[socket] = room.activeControllerId}
  ELSE {}

SyncedRooms ==
  {rid \in DOMAIN socketsByRoom :
     socketsByRoom[rid] # {} /\ rid \in DOMAIN rooms /\ rooms[rid].playback.isPlaying}

RECURSIVE SyncMessages(_)
SyncMessages(rids) ==
  IF rids = {} THEN <<>>
  ELSE LET rid == CHOOSE r \in rids : TRUE
           room == [rooms[rid] EXCEPT !.playback = normalizePlayback(@, now)]
       IN SendEach(readyState,
                   AscSeq(socketsByRoom[rid]
                          \ SkippedBySync(room, socketsByRoom, socketUserByConnection,
                                          rid, now)),
                   RoomStateMsg(0, room, "sync", "system", Null))
          \o SyncMessages(rids \ {rid})

\* one run of the setInterval callback periodicPlaybackSync
PeriodicSync ==
  /\ rooms' = [rid \in DOMAIN rooms |->
                 IF rid \in SyncedRooms
                 THEN LET room == [rooms[rid] EXCEPT !.playback = normalizePlayback(@, now)]
                      IN [room EXCEPT !.memberProfiles = roomResponseProfiles(room)]
                 ELSE rooms[rid]]
  /\ sent' = SyncMessages(SyncedRooms)
  /\ last' = Did("tick", 0, "system", "ticked")
  /\ UNCHANGED << now, chatByRoom, socketsByRoom, socketUserByConnection, readyState,
                  pendingPlaybackBurstsByRoomUser, recentPauseByRoomUser, lookups,
                  nextMessageId, obs >>

\* time passes
Advance(step, limit) ==
  /\ now + step <= limit
  /\ now' = now + step
  /\ sent' = <<>>
  /\ last' = Did("advance", 0, Null, Null)
  /\ UNCHANGED << rooms, chatByRoom, socketsByRoom, socketUserByConnection, readyState,
                  pendingPlaybackBurstsByRoomUser, recentPauseByRoomUser, lookups,
                  nextMessageId, obs >>

(***************************************************************************)
(* The system: every handler, with inputs from small sets                  *)
(***************************************************************************)
RevisionBelow(limit) == \A rid \in DOMAIN rooms : rooms[rid].revision < limit

BurstBelow(socket, limit) ==
  LET key == <<RoomOf(socket), socketUserByConnection[socket]>>
  IN key \in DOMAIN pendingPlaybackBurstsByRoomUser
       => Len(pendingPlaybackBurstsByRoomUser[key].events) < limit

\* a connection attempt with valid room id and token
Joins(users, nicknames, maxRevision, maxSockets) ==
  /\ RevisionBelow(maxRevision)
  /\ NewSocket <= maxSockets
  /\ \E userId \in users, nickname \in nicknames :
       Connect("r1", userId, TheToken, nickname)

Closes(maxRevision) ==
  RevisionBelow(maxRevision) /\ \E socket \in SocketIds : Close(socket)

Leaves(users, maxRevision) ==
  RevisionBelow(maxRevision) /\ \E userId \in users : HttpLeave("r1", userId, TheToken)

Syncs == \E socket \in SocketIds : Sync(socket)

Profiles(nicknames, maxRevision) ==
  /\ RevisionBelow(maxRevision)
  /\ \E socket \in SocketIds, nickname \in nicknames :
       Profile(socket, "setNickname", nickname)

\* play, pause and seek messages
Commands(actions, seeks, maxRevision, maxBurst) ==
  /\ RevisionBelow(maxRevision)
  /\ \E socket \in SocketIds :
       /\ socket \in Registered
       /\ BurstBelow(socket, maxBurst)
       /\ \E action \in actions, at \in seeks \cup {AtMissing} :
            /\ IF action = "seek" THEN at \in seeks ELSE at = AtMissing
            /\ Playback(socket, action, at)

ChangeVideos(videoIds, maxRevision, maxLookups) ==
  /\ RevisionBelow(maxRevision)
  /\ Len(lookups) < maxLookups
  /\ \E socket \in SocketIds, videoId \in videoIds : ChangeVideo(socket, videoId)

LookupsDone == \E i \in 1 .. Len(lookups) : LookupDone(i)

Chats(messages, replies, maxRevision) ==
  /\ RevisionBelow(maxRevision)
  /\ \E socket \in SocketIds, message \in messages, replyTo \in replies :
       Chat(socket, message, replyTo)

TimersFire == \E rid \in RoomIds, userId \in Users : FlushTimer(rid, userId)

(***************************************************************************)
(* Spec: every mutating handler, all within one lease period and then      *)
(* after it                                                                *)
(***************************************************************************)
CreateFromVideo == \E videoId \in {"v1", "vX"} : CreateRoom("a", videoId, Undefined)

LeasePeriodPasses == Advance(CONTROL_LEASE_MS + Quantum, CONTROL_LEASE_MS + Quantum)

Next ==
  \/ CreateFromVideo
  \/ Joins(Users, {Undefined}, MaxRevision, MainSockets)
  \/ Closes(MaxRevision)
  \/ Leaves(Users, MaxRevision)
  \/ Profiles({<<"n">>}, MaxRevision)
  \/ Commands({"play", "pause", "seek"}, {AtMissing, AtNumber(12000)}, MaxRevision, MaxBurst)
  \/ ChangeVideos({"v2"}, MaxRevision, MainLookups)
  \/ LookupsDone
  \/ Chats({<<"h">>}, {Undefined}, MaxRevision)
  \/ TimersFire
  \/ LeasePeriodPasses

Spec == Init /\ [][Next]_vars

(***************************************************************************)
(* Revision                                                                *)
(***************************************************************************)
\* the outcomes of the handlers that change room state
Accepted == {"joined", "left", "applied", "updated", "posted"}

RevisionDelta(rid) == rooms'[rid].revision - rooms[rid].revision

\* the revision bumps of an accepted operation, as the handlers make them
BumpsOf(did) == IF did.op = "playback" /\ did.resumed THEN 2 ELSE 1

\* C1 as stated: every accepted state-changing operation increases the
\* revision by exactly 1, and no step increases it by 2 or more.
C1_RevisionStepsByOne ==
  [][\A rid \in DOMAIN rooms :
       /\ RevisionDelta(rid) <= 1
       /\ last'.result \in Accepted => RevisionDelta(rid) = 1]_vars

\* C1: every accepted state-changing operation increases the revision by
\* exactly 1, except a seek that resumes playback after a scrub, which
\* increases it by exactly 2; a step that is not an accepted operation leaves
\* the revision as it is, and a new room starts at revision 1.
C1_RevisionSteps ==
  [][/\ \A rid \in DOMAIN rooms :
          RevisionDelta(rid) = IF last'.result \in Accepted THEN BumpsOf(last') ELSE 0
     /\ \A rid \in DOMAIN rooms' \ DOMAIN rooms : rooms'[rid].revision = 1]_vars

\* a seek has just resumed playback after a scrub
C1_Witness ==
  /\ last.op = "playback" /\ last.action = "seek" /\ last.result = "applied"
  /\ last.resumed
  /\ \E rid \in DOMAIN rooms : rooms[rid].playback.isPlaying

(***************************************************************************)
(* SpecLookup: playback commands that overlap pending video lookups        *)
(***************************************************************************)
NextLookup ==
  \/ CreateFromVideo
  \/ Joins(Users, {Undefined}, MaxRevision, MainSockets)
  \/ Commands({"play", "pause", "seek"}, {AtNumber(500)}, MaxRevision, MaxBurst)
  \/ ChangeVideos({"v1", "v2", "vX"}, MaxRevision, MaxLookups)
  \/ LookupsDone
  \/ LeasePeriodPasses

SpecLookup == Init /\ [][NextLookup]_vars

\* the no-op commands: the granted command `did` finds the room in a state that
\* already is what it asks for
IsNoOp(room, did, currentMs) ==
  \/ /\ did.op = "playback"
     /\ did.result # "denied"
     /\ \/ did.action = "play" /\ room.playback.isPlaying
        \/ did.action = "pause" /\ ~room.playback.isPlaying
        \/ /\ did.action = "seek"
           /\ did.at.type = "number"
           /\ did.at.value >= 0
           /\ ~AbsDiffGt(normalizePlayback(room.playback, currentMs).playbackTimeMs,
                         did.at.value, SeekEpsilonMs)
  \/ /\ did.op = "lookup"
     /\ did.videoId \in Videos
     /\ did.videoId = room.playback.videoId

\* C2: a granted playback command that is a no-op (play while playing, pause
\* while paused, seek within 1.0 s of the extrapolated position, changeVideo
\* whose resolved id is the room's video id when the lookup completes) leaves
\* revision and playback state unchanged and sends no message.
C2_NoOpChangesNothing ==
  [][\A rid \in DOMAIN rooms :
       IsNoOp(rooms[rid], last', now)
         => /\ rooms'[rid].revision = rooms[rid].revision
            /\ rooms'[rid].playback = rooms[rid].playback
            /\ sent' = <<>>]_vars

(***************************************************************************)
(* SpecLease: commands of two users around the expiry of the control lease *)
(***************************************************************************)
HalfLease == CONTROL_LEASE_MS \div 2

NextLease ==
  \/ CreateFromVideo
  \/ Joins(Users, {Undefined}, MaxRevision + 1, MainSockets)
  \/ Closes(MaxRevision + 1)
  \/ Commands({"play"}, {AtMissing}, MaxRevision + 1, MaxBurst)
  \/ ChangeVideos({"v2"}, MaxRevision + 1, MainLookups)
  \/ LookupsDone
  \/ TimersFire
  \/ Advance(HalfLease, CONTROL_LEASE_MS + HalfLease)

SpecLease == Init /\ [][NextLease]_vars

LeaseOf(room) == << room.activeControllerId, room.activeControllerUntilMs >>

\* C3: while the user of the last granted playback command stays in the room,
\* a playback command of another user that arrives up to 2000 ms after that
\* grant changes neither playback, revision nor lease, starts no lookup, and
\* sends nothing to anyone.
C3_LeaseExcludesOthers ==
  [][(/\ last'.op = "playback"
      /\ obs.grant.userId # Null
      /\ last'.userId # obs.grant.userId
      /\ now <= obs.grant.at + CONTROL_LEASE_MS)
       => /\ \A rid \in DOMAIN rooms :
               /\ rooms'[rid].playback = rooms[rid].playback
               /\ rooms'[rid].revision = rooms[rid].revision
               /\ LeaseOf(rooms'[rid]) = LeaseOf(rooms[rid])
          /\ lookups' = lookups
          /\ sent' = <<>>]_vars

\* another user's command has just been dropped at the last instant of the lease
C3_Witness ==
  /\ last.op = "playback" /\ last.result = "denied"
  /\ obs.grant.userId \notin {Null, last.userId}
  /\ now = obs.grant.at + CONTROL_LEASE_MS
  /\ \E rid \in DOMAIN rooms : obs.grant.userId \in rooms[rid].members

\* the condition under which acquire(room, u, now) is to be granted
LeaseDue(room, u, currentMs) ==
  \/ room.activeControllerId = Null
  \/ room.activeControllerId = u
  \/ currentMs > room.activeControllerUntilMs

\* C4: the lease is granted to the user of a playback command exactly when
\* the room has no holder, the holder is that user, or now is strictly after
\* the stored expiry; a grant makes the user the holder with expiry now + 2000
\* ms, a denial leaves holder and expiry as they are.
C4_Acquire ==
  [][last'.op = "playback"
       => LET rid == RoomOf(last'.sock)
              due == LeaseDue(rooms[rid], last'.userId, now)
          IN /\ (last'.result # "denied") <=> due
             /\ due => LeaseOf(rooms'[rid]) = << last'.userId, now + CONTROL_LEASE_MS >>
             /\ ~due => LeaseOf(rooms'[rid]) = LeaseOf(rooms[rid])]_vars

\* a different user has just been denied at now equal to the stored expiry
C4_Witness ==
  /\ last.op = "playback" /\ last.result = "denied"
  /\ \E rid \in DOMAIN rooms :
       /\ rooms[rid].activeControllerId \notin {Null, last.userId}
       /\ now = rooms[rid].activeControllerUntilMs

(***************************************************************************)
(* SpecBurst: bursts of play, pause and seek from the connections of one   *)
(* user, flushed by the debounce timer                                     *)
(***************************************************************************)
NextBurst ==
  \/ CreateFromVideo
  \/ Joins(Users, {Undefined}, MaxRevision, MaxSockets)
  \/ Closes(MaxRevision + BurstLen)
  \/ Commands({"play", "pause", "seek"}, {AtNumber(12000)}, MaxRevision + BurstLen, BurstLen)
  \/ TimersFire
  \/ Advance(Quantum, Quantum)

SpecBurst == Init /\ [][NextBurst]_vars

\* the actions of the messages of `msgs` addressed to `socket`
ActionsTo(msgs, socket) ==
  LET mine == SelectSeq(msgs, LAMBDA m : m.to = socket)
  IN [i \in 1 .. Len(mine) |-> mine[i].action]

ActionsOf(events) == [i \in 1 .. Len(events) |-> events[i].action]

HasSeek(events) == \E i \in 1 .. Len(events) : events[i].action = "seek"

LastSeek(events) ==
  CHOOSE i \in 1 .. Len(events) :
    /\ events[i].action = "seek"
    /\ \A j \in i + 1 .. Len(events) : events[j].action # "seek"

OpenIn(rid) == {s \in RoomSockets(socketsByRoom, rid) : readyState[s] = "OPEN"}

\* the burst that the step flushes, if the step is a firing of the debounce timer
Flushed(rid) == pendingPlaybackBurstsByRoomUser[<<rid, last'.userId>>].events

Flushes(rid) ==
  /\ last'.op = "flush"
  /\ <<rid, last'.userId>> \in DOMAIN pendingPlaybackBurstsByRoomUser

\* every flushed message is a room_state of reason playback by the user of the burst
FlushLabels ==
  \A i \in 1 .. Len(sent') :
    /\ sent'[i].type = "room_state" /\ sent'[i].reason = "playback"
    /\ sent'[i].byUserId = last'.userId

\* C5 as stated: the connections that issued events of the burst receive
\* nothing; every other open connection receives one broadcast labelled seek
\* if the burst holds a seek, otherwise one per queued event in order.
C5_IssuersReceiveNothing ==
  [][\A rid \in DOMAIN rooms : Flushes(rid) =>
       LET events == Flushed(rid)
           issuers == {events[i].excludeSocket : i \in 1 .. Len(events)}
       IN /\ FlushLabels
          /\ \A s \in SocketIds :
               ActionsTo(sent', s) =
                 IF s \notin OpenIn(rid) \/ s \in issuers THEN <<>>
                 ELSE IF HasSeek(events) THEN <<"seek">>
                 ELSE ActionsOf(events)]_vars

\* C5: at one firing of the debounce timer for the burst of one user, if
\* the burst holds a seek every open connection except the one that issued the
\* last seek receives exactly one room_state labelled seek and that one none;
\* otherwise every open connection receives, in order, one room_state for each
\* queued event that it did not issue itself.
C5_BurstCoalescing ==
  [][\A rid \in DOMAIN rooms : Flushes(rid) =>
       LET events == Flushed(rid)
       IN /\ FlushLabels
          /\ \A s \in SocketIds :
               ActionsTo(sent', s) =
                 IF s \notin OpenIn(rid) THEN <<>>
                 ELSE IF HasSeek(events)
                 THEN IF events[LastSeek(events)].excludeSocket = s THEN <<>>
                      ELSE <<"seek">>
                 ELSE ActionsOf(SelectSeq(events, LAMBDA e : e.excludeSocket # s))]_vars

\* a burst ending in a seek was flushed: a second connection of its user and a
\* connection of another user each received the one broadcast
C5_Witness ==
  /\ last.op = "flush"
  /\ \A i \in 1 .. Len(sent) : sent[i].action = "seek"
  /\ \E s, t \in SocketIds :
       /\ ActionsTo(sent, s) = <<"seek">> /\ ActionsTo(sent, t) = <<"seek">>
       /\ s \in Registered /\ socketUserByConnection[s] = last.userId
       /\ t \in Registered /\ socketUserByConnection[t] # last.userId

(***************************************************************************)
(* SpecScrub: pause and seek of one user within and after the noise window *)
(***************************************************************************)
NextScrub ==
  \/ CreateFromVideo
  \/ Joins({"a"}, {Undefined}, MaxRevision + 1, MainSockets)
  \/ Leaves({"a"}, MaxRevision + 1)
  \/ Commands({"play", "pause", "seek"}, {AtNumber(12000)}, MaxRevision + 1, MaxBurst)
  \/ ChangeVideos({"v2"}, MaxRevision + 1, MainLookups)
  \/ LookupsDone
  \/ TimersFire
  \/ Advance(Quantum, SEEK_PAUSE_NOISE_WINDOW_MS + Quantum)

SpecScrub == Init /\ [][NextScrub]_vars

\* the step is a seek(x) with a valid x of the user whose pause stopped the room at
\* most 500 ms ago, and the room is paused
ScrubSeek(rid) ==
  /\ last'.op = "playback" /\ last'.action = "seek"
  /\ last'.at.type = "number" /\ last'.at.value >= 0
  /\ RoomOf(last'.sock) = rid
  /\ obs.pause.userId = last'.userId
  /\ now - obs.pause.at <= SEEK_PAUSE_NOISE_WINDOW_MS
  /\ ~rooms[rid].playback.isPlaying

Resumed(rid) ==
  /\ rooms'[rid].playback.playbackTimeMs = last'.at.value
  /\ rooms'[rid].playback.isPlaying

\* C6 as stated: after a pause of a user that stopped the room, the same
\* user's seek(x) with any valid x at most 500 ms later, the room still paused,
\* leaves the room at position x and playing.
C6_AnySeekResumes ==
  [][\A rid \in DOMAIN rooms : ScrubSeek(rid) => Resumed(rid)]_vars

\* C6: after a pause of a user that stopped the room, the same user's
\* seek(x) at most 500 ms later, the room still paused, with x more than 1.0 s
\* away from the paused position, the user not removed from the room and no
\* changeVideo of the user applied since the pause, leaves the room at position
\* x and playing.
C6_ResumeAfterScrub ==
  [][\A rid \in DOMAIN rooms :
       (/\ ScrubSeek(rid)
        /\ ~obs.pause.left /\ ~obs.pause.changedVideo
        /\ AbsDiffGt(rooms[rid].playback.playbackTimeMs, last'.at.value, SeekEpsilonMs))
         => Resumed(rid)]_vars

\* a seek exactly 500 ms after the pause has resumed playback at its target
C6_Witness ==
  /\ last.op = "playback" /\ last.action = "seek" /\ last.resumed
  /\ obs.pause.userId = last.userId
  /\ now = obs.pause.at + SEEK_PAUSE_NOISE_WINDOW_MS
  /\ \E rid \in DOMAIN rooms :
       /\ rooms[rid].playback.isPlaying
       /\ rooms[rid].playback.playbackTimeMs = last.at.value

(***************************************************************************)
(* SpecMembers: users with several connections join, close and leave       *)
(***************************************************************************)
NextMembers ==
  \/ CreateFromVideo
  \/ Joins(Users, {Undefined}, MaxRevision + 1, MaxSockets)
  \/ Closes(MaxRevision + 2)
  \/ Leaves(Users, MaxRevision + 1)

SpecMembers == Init /\ [][NextMembers]_vars

\* the step is the close of a connection of room rid
ClosesIn(rid) ==
  /\ last'.op = "close"
  /\ last'.sock \in Registered
  /\ RoomOf(last'.sock) = rid

\* the user of the closing connection has another connection to the room
OtherConnection(rid) ==
  \E t \in Registered \ {last'.sock} :
    RoomOf(t) = rid /\ socketUserByConnection[t] = last'.userId

MembershipKept(rid) ==
  /\ rooms'[rid].members = rooms[rid].members
  /\ rooms'[rid].revision = rooms[rid].revision
  /\ sent' = <<>>

\* the user is removed, and each remaining open connection receives one leave
MemberRemoved(rid) ==
  /\ rooms'[rid].members = rooms[rid].members \ {last'.userId}
  /\ last'.userId \notin rooms'[rid].members
  /\ rooms'[rid].revision = rooms[rid].revision + 1
  /\ \A i \in 1 .. Len(sent') :
       /\ sent'[i].type = "room_state" /\ sent'[i].reason = "leave"
       /\ sent'[i].byUserId = last'.userId
       /\ sent'[i].revision = rooms'[rid].revision
  /\ \A t \in SocketIds :
       Len(ActionsTo(sent', t)) =
         IF t \in RoomSockets(socketsByRoom', rid) /\ readyState'[t] = "OPEN" THEN 1 ELSE 0

\* C7 as stated: the close of one of several connections of a user keeps
\* the user a member at the same revision without a broadcast; the close of
\* the user's last connection removes the user, bumps the revision by 1 and
\* broadcasts a leave.
C7_LastCloseRemoves ==
  [][\A rid \in DOMAIN rooms : ClosesIn(rid) =>
       IF OtherConnection(rid) THEN MembershipKept(rid)
       ELSE /\ last'.userId \notin rooms'[rid].members
            /\ rooms'[rid].revision = rooms[rid].revision + 1]_vars

\* C7: the close of one of several connections of a user keeps the member
\* set and the revision and sends nothing; the close of the last connection of
\* a user who is still a member removes the user, bumps the revision by 1 and
\* sends one leave room_state to each remaining open connection; the close of
\* the last connection of a user who has already left changes nothing.
C7_Membership ==
  [][\A rid \in DOMAIN rooms : ClosesIn(rid) =>
       IF OtherConnection(rid) THEN MembershipKept(rid)
       ELSE IF last'.userId \in rooms[rid].members THEN MemberRemoved(rid)
       ELSE MembershipKept(rid)]_vars

\* the last connection of a member has closed after an earlier one of the same user,
\* and a connection of another user received the leave
C7_Witness ==
  /\ last.op = "close" /\ last.result = "left"
  /\ Cardinality(DOMAIN readyState \ Registered) >= 2
  /\ \E i \in 1 .. Len(sent) : sent[i].reason = "leave" /\ sent[i].byUserId = last.userId

(***************************************************************************)
(* SpecE2E: create, join, play, and a sync five seconds later              *)
(***************************************************************************)
HalfHorizon == MaxTime \div 2

FiveSeconds == 5 * 1000

NextE2E ==
  \/ CreateFromVideo
  \/ Joins(Users, {Undefined}, MaxRevision, MainSockets)
  \/ Commands({"play", "pause"}, {AtMissing}, MaxRevision, MaxBurst)
  \/ Syncs
  \/ PeriodicSync
  \/ TimersFire
  \/ Advance(HalfHorizon, MaxTime)

SpecE2E == Init /\ [][NextE2E]_vars

\* the step is a sync exactly 5 s after the play that was the first command of the room
SyncAfterPlay ==
  /\ last'.op = "sync"
  /\ obs.play.phase = "played"
  /\ now = obs.play.at + FiveSeconds

\* the reply to the sync: one room_state to the asking connection, playing at 5 s
PlayingAtFive ==
  /\ Len(sent') = 1
  /\ sent'[1].to = last'.sock
  /\ sent'[1].type = "room_state" /\ sent'[1].reason = "sync"
  /\ sent'[1].playback.isPlaying
  /\ sent'[1].playback.playbackTimeMs = FiveSeconds

\* C8 as stated: the sync 5 s after the play is answered with isPlaying,
\* position 5 s and revision 2.
C8_RevisionTwo ==
  [][SyncAfterPlay => PlayingAtFive /\ sent'[1].revision = 2]_vars

\* C8: after a room is created and the first command is a play that is
\* granted, a sync 5 s later with no other playback, chat or nickname command
\* in between is answered with isPlaying, position 5 s and the room's current
\* revision, which counts the creation, the play and every WebSocket join: at
\* least 3, and at least 4 when the sync comes from another user than the play.
C8_EndToEnd ==
  [][SyncAfterPlay =>
       /\ PlayingAtFive
       /\ sent'[1].revision = rooms[RoomOf(last'.sock)].revision
       /\ sent'[1].revision >= 3
       /\ last'.userId # obs.play.by => sent'[1].revision >= 4]_vars

\* B's sync 5 s after A's play was answered with position 5 s at revision 4
C8_Witness ==
  /\ last.op = "sync"
  /\ obs.play.phase = "played"
  /\ now = obs.play.at + FiveSeconds
  /\ last.userId # obs.play.by
  /\ Len(sent) = 1
  /\ sent[1].playback.isPlaying
  /\ sent[1].playback.playbackTimeMs = FiveSeconds
  /\ sent[1].revision = 4

(***************************************************************************)
(* SpecPure: normalizePlayback applied to stored playback states at clock  *)
(* readings before, at and after the stored timestamp                      *)
(***************************************************************************)
PureTimes == {0, 500, 1000, CONTROL_LEASE_MS}
PurePositions == {0, 1500, Infinity}

PurePlaybacks ==
  [videoId : {"v1"}, playbackTimeMs : PurePositions, isPlaying : BOOLEAN,
   lastUpdatedAtMs : PureTimes]

PureRoom(playback) ==
  [creatorId |-> "a", inviteToken |-> TheToken, members |-> {"a"},
   memberProfiles |-> MapSet(EmptyMap, "a", AsText("a")),
   playback |-> playback, revision |-> 1,
   activeControllerId |-> "a", activeControllerUntilMs |-> CONTROL_LEASE_MS]

InitPure ==
  /\ now \in PureTimes
  /\ \E playback \in PurePlaybacks : rooms = MapSet(EmptyMap, "r1", PureRoom(playback))
  /\ chatByRoom = MapSet(EmptyMap, "r1", <<>>)
  /\ socketsByRoom = EmptyMap
  /\ socketUserByConnection = EmptyMap
  /\ readyState = EmptyMap
  /\ pendingPlaybackBurstsByRoomUser = EmptyMap
  /\ recentPauseByRoomUser = EmptyMap
  /\ lookups = <<>>
  /\ nextMessageId = 1
  /\ sent = <<>>
  /\ last = NoLast
  /\ obs = NoObs

\* room.playback = normalizePlayback(room.playback)
Extrapolate(rid) ==
  /\ rid \in DOMAIN rooms
  /\ rooms[rid].playback.playbackTimeMs \in (0 .. MaxPosition) \cup {Infinity}
  /\ rooms' = [rooms EXCEPT ![rid].playback = normalizePlayback(@, now)]
  /\ sent' = <<>>
  /\ last' = Did("extrapolate", 0, Null, "extrapolated")
  /\ UNCHANGED << now, chatByRoom, socketsByRoom, socketUserByConnection, readyState,
                  pendingPlaybackBurstsByRoomUser, recentPauseByRoomUser, lookups,
                  nextMessageId, obs >>

\* Date.now() is the wall clock: its next reading may be any time, an earlier one included
ClockReads(t) ==
  /\ now' = t
  /\ sent' = <<>>
  /\ last' = Did("clock", 0, Null, Null)
  /\ UNCHANGED << rooms, chatByRoom, socketsByRoom, socketUserByConnection, readyState,
                  pendingPlaybackBurstsByRoomUser, recentPauseByRoomUser, lookups,
                  nextMessageId, obs >>

NextPure ==
  \/ \E rid \in RoomIds : Extrapolate(rid)
  \/ \E t \in PureTimes : ClockReads(t)

SpecPure == InitPure /\ [][NextPure]_vars

\* C9: extrapolating a playing state with stored timestamp t1 at t2 >= t1
\* gives position + (t2 - t1) and timestamp t2; at t2 < t1 the position is
\* unchanged; a paused state is returned unchanged; extrapolating the result
\* again at the same instant returns it unchanged.
C9_Extrapolate ==
  [][last'.op = "extrapolate" =>
       \A rid \in DOMAIN rooms :
         LET p == rooms[rid].playback
             q == rooms'[rid].playback
         IN /\ (p.isPlaying /\ now >= p.lastUpdatedAtMs) =>
                 /\ q.playbackTimeMs =
                      IF p.playbackTimeMs = Infinity THEN Infinity
                      ELSE p.playbackTimeMs + (now - p.lastUpdatedAtMs)
                 /\ q.lastUpdatedAtMs = now
            /\ (p.isPlaying /\ now < p.lastUpdatedAtMs) =>
                 q.playbackTimeMs = p.playbackTimeMs
            /\ ~p.isPlaying => q = p
            /\ q.isPlaying = p.isPlaying /\ q.videoId = p.videoId
            /\ normalizePlayback(q, now) = q]_vars

\* a playing state was extrapolated over a positive elapsed time
C9_Witness ==
  /\ last.op = "extrapolate"
  /\ \E rid \in DOMAIN rooms :
       /\ rooms[rid].playback.isPlaying
       /\ rooms[rid].playback.lastUpdatedAtMs = now
       /\ rooms[rid].playback.playbackTimeMs \notin PurePositions

(***************************************************************************)
(* SpecAdmission: connection attempts with missing or wrong room, user id  *)
(* and invite token                                                        *)
(***************************************************************************)
Attempts ==
  \E roomId \in RoomIds \cup {"r0"}, userId \in Users \cup {""},
     inviteToken \in {TheToken, "bad"} :
    Connect(roomId, userId, inviteToken, Undefined)

NextAdmission ==
  \/ CreateFromVideo
  \/ Attempts
  \/ Closes(MaxRevision)

SpecAdmission == Init /\ [][NextAdmission]_vars

\* the error a connection attempt is to be rejected with, Null if none
Rejection(did) ==
  IF did.roomId \notin DOMAIN rooms THEN "room_not_found"
  ELSE IF did.userId = "" THEN "missing_user_id"
  ELSE IF did.inviteToken # rooms[did.roomId].inviteToken THEN "invalid_invite_token"
  ELSE Null

\* C10: a connection attempt is rejected with room_not_found if the room
\* does not exist, else missing_user_id if the user id is empty, else
\* invalid_invite_token if the token differs from the room's; a rejected
\* attempt gets exactly one error message, its connection is closed, and rooms
\* (members, profiles, revision, playback) and connection sets are unchanged;
\* any other attempt is not rejected with one of these errors.
C10_Admission ==
  [][last'.op = "connect" =>
       IF Rejection(last') # Null
       THEN /\ last'.result = Rejection(last')
            /\ sent' = << ErrorMsg(last'.sock, Rejection(last')) >>
            /\ readyState'[last'.sock] # "OPEN"
            /\ last'.sock \notin DOMAIN socketUserByConnection'
            /\ rooms' = rooms
            /\ socketsByRoom' = socketsByRoom
            /\ socketUserByConnection' = socketUserByConnection
       ELSE last'.result \notin
              {"room_not_found", "missing_user_id", "invalid_invite_token"}]_vars

\* an attempt with neither user id nor the right token on an existing room was rejected
\* for the user id
C10_Witness ==
  /\ last.op = "connect" /\ last.result = "missing_user_id"
  /\ last.roomId \in DOMAIN rooms
  /\ last.inviteToken # rooms[last.roomId].inviteToken
  /\ readyState[last.sock] = "CLOSING"
  /\ Len(sent) = 1 /\ sent[1].type = "error"

(***************************************************************************)
(* SpecErrors: playback commands that fail validation, from the lease      *)
(* holder and from another user after the lease has lapsed                 *)
(***************************************************************************)
\* atTimeSec values of a JSON payload that are not numbers: a string, and null (which is
\* also what JSON.stringify makes of NaN)
AtText == [type |-> "string", value |-> 0]
AtNull == [type |-> "object", value |-> 0]

SeekInputs ==
  {AtMissing, AtText, AtNull, AtNumber(0 - 1000), AtNumber(Infinity), AtNumber(12000)}

NextErrors ==
  \/ CreateFromVideo
  \/ Joins(Users, {Undefined}, MaxRevision, MainSockets)
  \/ Commands({"play", "seek"}, SeekInputs, MaxRevision, MaxBurst)
  \/ ChangeVideos({"", "vX"}, MaxRevision, MainLookups)
  \/ LookupsDone
  \/ LeasePeriodPasses

SpecErrors == Init /\ [][NextErrors]_vars

ValidationErrors == {"invalid_seek_time", "missing_video_id", "video_not_found"}

\* the step ends a playback command with a validation error
FailsValidation ==
  /\ last'.op \in {"playback", "lookup"}
  /\ last'.result \in ValidationErrors

\* C11: a playback command that fails validation sends one error message
\* to the originating connection only, leaves that connection open, and leaves
\* playback state, revision, member set, chat log and the control lease holder
\* and expiry as they were before the command.
C11_ErrorLeavesRoom ==
  [][FailsValidation =>
       /\ sent' = << ErrorMsg(last'.sock, last'.result) >>
       /\ readyState'[last'.sock] = "OPEN"
       /\ chatByRoom' = chatByRoom
       /\ \A rid \in DOMAIN rooms :
            /\ rooms'[rid].playback = rooms[rid].playback
            /\ rooms'[rid].revision = rooms[rid].revision
            /\ rooms'[rid].members = rooms[rid].members
            /\ LeaseOf(rooms'[rid]) = LeaseOf(rooms[rid])]_vars

\* atTimeSec is a finite number >= 0
FiniteSeek(at) == at.type = "number" /\ at.value >= 0 /\ at.value # Infinity

\* C12: a seek whose atTimeSec is not a finite number >= 0 fails with
\* invalid_seek_time, and no seek sets the position of a room to a non-finite or
\* negative value.
C12_SeekValidation ==
  [][(last'.op = "playback" /\ last'.action = "seek" /\ last'.result # "denied") =>
       /\ ~FiniteSeek(last'.at) => last'.result = "invalid_seek_time"
       /\ \A rid \in DOMAIN rooms :
            /\ rooms'[rid].playback.playbackTimeMs >= 0
            /\ rooms'[rid].playback.playbackTimeMs # Infinity]_vars

(***************************************************************************)
(* SpecNick: nicknames supplied at join and by setNickname: absent, empty, *)
(* blank, padded, of the maximal length and longer                         *)
(***************************************************************************)
Nickname32 == [i \in 1 .. MAX_NICKNAME_LEN |-> "x"]
LongNickname == Nickname32 \o <<"y">>

Nicknames == {Undefined, <<>>, <<" ">>, <<" ", "n", " ">>, Nickname32, LongNickname}

NextNick ==
  \/ CreateFromVideo
  \/ Joins(Users, Nicknames, MaxRevision, MainSockets)
  \/ Profiles(Nicknames, MaxRevision)
  \/ Closes(MaxRevision)

SpecNick == Init /\ [][NextNick]_vars

\* the step handles a nickname supplied by an admitted join or by setNickname
SuppliesNickname ==
  /\ last'.nickname # Undefined
  /\ \/ last'.op = "connect" /\ last'.result \in {"joined", "invalid_nickname"}
     \/ last'.op = "profile" /\ last'.result # "invalid_profile_action"

\* the nickname stored for a user, Undefined if none is stored
Stored(room, userId) ==
  IF userId \in DOMAIN room.memberProfiles THEN room.memberProfiles[userId] ELSE Undefined

FirstChars(s, n) == [i \in 1 .. (IF Len(s) < n THEN Len(s) ELSE n) |-> s[i]]

NicknameAccepted == last'.result \in {"joined", "updated", "unchanged"}

NicknameRefused(rid) ==
  /\ last'.result = "invalid_nickname"
  /\ sent' = << ErrorMsg(last'.sock, "invalid_nickname") >>
  /\ Stored(rooms'[rid], last'.userId) = Stored(rooms[rid], last'.userId)

\* C13 as stated: a supplied nickname is accepted only if its trimmed
\* length is between 1 and 32; any other nickname, a longer one included, fails
\* with invalid_nickname and the stored nickname of the user is not changed.
C13_LongNicknameFails ==
  [][SuppliesNickname =>
       \A rid \in DOMAIN rooms :
         IF Len(Trim(last'.nickname)) \in 1 .. MAX_NICKNAME_LEN
         THEN NicknameAccepted
         ELSE NicknameRefused(rid)]_vars

\* C13: a nickname supplied at join or by setNickname whose trimmed text
\* is not empty is accepted, and the nickname stored for the user is then the
\* first 32 characters of the trimmed text (a longer nickname is cut, not
\* refused); a nickname that is blank after trimming fails with invalid_nickname
\* and the stored nickname is not changed, except that an empty nickname at
\* join counts as not supplied and the join is accepted.
C13_Nickname ==
  [][SuppliesNickname =>
       \A rid \in DOMAIN rooms :
         IF Trim(last'.nickname) # <<>>
         THEN /\ NicknameAccepted
              /\ Stored(rooms'[rid], last'.userId)
                   = FirstChars(Trim(last'.nickname), MAX_NICKNAME_LEN)
         ELSE IF last'.op = "connect" /\ last'.nickname = <<>>
         THEN /\ last'.result = "joined"
              /\ Stored(rooms'[rid], last'.userId) =
                   IF Stored(rooms[rid], last'.userId) = Undefined
                   THEN AsText(last'.userId)
                   ELSE Stored(rooms[rid], last'.userId)
         ELSE NicknameRefused(rid)]_vars

\* a nickname of 33 characters was accepted and its first 32 characters stored
C13_Witness ==
  /\ last.op \in {"connect", "profile"}
  /\ last.result \in {"joined", "updated"}
  /\ Len(Trim(last.nickname)) > MAX_NICKNAME_LEN
  /\ \E rid \in DOMAIN rooms :
       /\ last.userId \in DOMAIN rooms[rid].memberProfiles
       /\ rooms[rid].memberProfiles[last.userId] = Nickname32

(***************************************************************************)
(* SpecLeave: POST /rooms/:roomId/leave for members with connections,      *)
(* pending bursts and the lease, and for users who are not members         *)
(***************************************************************************)
NextLeave ==
  \/ CreateFromVideo
  \/ Joins(Users, {Undefined}, MaxRevision + 1, MainSockets)
  \/ Closes(MaxRevision + 1)
  \/ Leaves(Users, MaxRevision + 1)
  \/ Commands({"play", "pause"}, {AtMissing}, MaxRevision + 1, MaxBurst)
  \/ TimersFire
  \/ Advance(Quantum, Quantum)

SpecLeave == Init /\ [][NextLeave]_vars

\* the step is a leave of room rid that passed the checks of user id, room and token
LeavesRoom(rid) ==
  /\ last'.op = "leave"
  /\ last'.result \in {"left", "not_member"}
  /\ rid \in DOMAIN rooms

\* the connections of the user in the room
ConnectionsOf(rid, userId) ==
  {s \in RoomSockets(socketsByRoom, rid) : socketUserByConnection[s] = userId}

\* leave of a member: removed with profile, pending burst and lease, revision + 1, one
\* leave room_state to every open connection of the room, the user's connections closed
LeaveOfMember(rid) ==
  LET u == last'.userId
  IN /\ last'.result = "left"
     /\ rooms'[rid].members = rooms[rid].members \ {u}
     /\ u \notin DOMAIN rooms'[rid].memberProfiles
     /\ <<rid, u>> \notin DOMAIN pendingPlaybackBurstsByRoomUser'
     /\ LeaseOf(rooms'[rid]) =
          IF rooms[rid].activeControllerId = u THEN << Null, 0 >> ELSE LeaseOf(rooms[rid])
     /\ rooms'[rid].revision = rooms[rid].revision + 1
     /\ \A i \in 1 .. Len(sent') :
          /\ sent'[i].type = "room_state" /\ sent'[i].reason = "leave"
          /\ sent'[i].byUserId = u
          /\ sent'[i].revision = rooms'[rid].revision
          /\ u \notin sent'[i].members
     /\ \A s \in SocketIds :
          Len(ActionsTo(sent', s)) = IF s \in OpenIn(rid) THEN 1 ELSE 0
     /\ \A s \in ConnectionsOf(rid, u) : readyState'[s] # "OPEN"

\* C14: leave(room, user) for a current member removes the user from the
\* member set, drops the user's profile, cancels the user's pending debounce
\* burst, releases the lease if the user holds it, increases the revision by 1,
\* broadcasts a room_state with reason leave and closes the user's connections
\* in the room; leave for a user who is not a member returns left = false,
\* changes no room state at all (revision, member set, profiles and lease
\* unchanged) and broadcasts nothing.
C14_Leave ==
  [][\A rid \in RoomIds : LeavesRoom(rid) =>
       IF last'.userId \in rooms[rid].members
       THEN LeaveOfMember(rid)
       ELSE /\ last'.result = "not_member"
            /\ rooms'[rid].revision = rooms[rid].revision
            /\ rooms'[rid].members = rooms[rid].members
            /\ rooms'[rid].memberProfiles = rooms[rid].memberProfiles
            /\ LeaseOf(rooms'[rid]) = LeaseOf(rooms[rid])
            /\ sent' = <<>>]_vars

(***************************************************************************)
(* SpecReply: chat posts with and without text, replying to nothing, to a  *)
(* blank id, to an id of the log and to an id that is not in the log       *)
(***************************************************************************)
ChatTexts == {<<"h">>, <<" ">>}
ReplyIds == {Undefined, <<>>, <<" ">>, <<"1">>, <<" ", "1", " ">>, <<"9">>}

NextReply ==
  \/ CreateFromVideo
  \/ Joins(Users, {Undefined}, MaxRevision, MainSockets)
  \/ Chats(ChatTexts, ReplyIds, MaxRevision)

SpecReply == Init /\ [][NextReply]_vars

\* the chat log of a room
LogOf(chats, rid) == IF rid \in DOMAIN chats THEN chats[rid] ELSE <<>>

\* the log holds a message with this id
InLog(log, id) == \E i \in 1 .. Len(log) : log[i].id = id

\* the outcome of the reply validation of a chat post in room rid
ReplyOutcome(rid) ==
  LET id == Trim(last'.replyTo)
      log == LogOf(chatByRoom, rid)
      posted == LogOf(chatByRoom', rid)
  IN IF id = <<>> THEN last'.result = "invalid_reply_message_id" /\ posted = log
     ELSE IF ~InLog(log, id) THEN last'.result = "reply_message_not_found" /\ posted = log
     ELSE /\ last'.result = "posted"
          /\ posted # <<>>
          /\ posted[Len(posted)].replyToMessageId = id
          /\ posted[Len(posted)].message = Trim(last'.message)

\* the step is a chat post in room rid that supplies a replyToMessageId
RepliesIn(rid) ==
  /\ last'.op = "chat"
  /\ last'.replyTo # Undefined
  /\ last'.sock \in Registered /\ RoomOf(last'.sock) = rid

\* C15 as stated: a chat post whose replyToMessageId is supplied and
\* non-blank but matches no message id of the room's log fails with
\* reply_message_not_found; one that is blank after trimming fails with
\* invalid_reply_message_id; one that names an id of the log succeeds and the
\* stored message keeps that id as its reply reference.
C15_ReplyValidation ==
  [][\A rid \in DOMAIN rooms : RepliesIn(rid) => ReplyOutcome(rid)]_vars

\* C15: a chat post with text that is not empty after trimming and whose
\* replyToMessageId is supplied fails with invalid_reply_message_id if the id is
\* blank after trimming, with reply_message_not_found if the trimmed id matches
\* no message id of the room's log, and otherwise succeeds, the stored message
\* keeping the trimmed id as its reply reference; a post whose text is empty
\* after trimming fails with message_empty whatever its replyToMessageId is.
C15_Reply ==
  [][\A rid \in DOMAIN rooms : RepliesIn(rid) =>
       IF Trim(last'.message) = <<>>
       THEN /\ last'.result = "message_empty"
            /\ LogOf(chatByRoom', rid) = LogOf(chatByRoom, rid)
       ELSE ReplyOutcome(rid)]_vars

\* a reply that names the id of the first message, padded with blanks, was stored
\* with the trimmed id
C15_Witness ==
  /\ last.op = "chat" /\ last.result = "posted"
  /\ last.replyTo = <<" ", "1", " ">>
  /\ \E rid \in DOMAIN chatByRoom :
       /\ Len(chatByRoom[rid]) >= 2
       /\ chatByRoom[rid][1].id = <<"1">>
       /\ chatByRoom[rid][Len(chatByRoom[rid])].replyToMessageId = <<"1">>

(***************************************************************************)
(* SpecChat: one user posts more messages than the log keeps               *)
(***************************************************************************)
\* the revision a room reaches when its log has overflowed by MaxRevision messages
ChatRevisions == MAX_CHAT_MESSAGES + MaxRevision + 2

NextChat ==
  \/ CreateFromVideo
  \/ Joins({"a"}, {Undefined}, MaxRevision, MainSockets)
  \/ Chats({<<"h">>}, {Undefined}, ChatRevisions)

SpecChat == Init /\ [][NextChat]_vars

\* C16: the chat log of a room never holds more than 200 messages;
\* a post appends its message at the end of the log, and when that would make
\* the length exceed 200 exactly the oldest message is discarded, so that the
\* newest 200 are kept in insertion order; no other step changes the log.
C16_ChatLogBound ==
  [][\A rid \in DOMAIN rooms :
       LET log == LogOf(chatByRoom, rid)
           posted == LogOf(chatByRoom', rid)
       IN /\ Len(posted) <= MAX_CHAT_MESSAGES
          /\ IF last'.op = "chat" /\ last'.result = "posted"
             THEN /\ posted # <<>>
                  /\ ~InLog(log, posted[Len(posted)].id)
                  /\ posted[Len(posted)].message = Trim(last'.message)
                  /\ SubSeq(posted, 1, Len(posted) - 1) =
                       IF Len(log) = MAX_CHAT_MESSAGES THEN Tail(log) ELSE log
             ELSE posted = log]_vars

\* the log is full and has lost its two oldest messages: it starts with the third
C16_Witness ==
  /\ last.op = "chat" /\ last.result = "posted"
  /\ \E rid \in DOMAIN chatByRoom :
       /\ Len(chatByRoom[rid]) = MAX_CHAT_MESSAGES
       /\ chatByRoom[rid][1].id = IdText(3)
       /\ chatByRoom[rid][MAX_CHAT_MESSAGES].id = IdText(MAX_CHAT_MESSAGES + 2)

(***************************************************************************)
(* SpecTick: the periodic sync in rooms that play or are paused, before,   *)
(* at and after the expiry of the lease, with holders that stay or leave   *)
(***************************************************************************)
NextTick ==
  \/ CreateFromVideo
  \/ Joins(Users, {Undefined}, MaxRevision, MainSockets)
  \/ Leaves(Users, MaxRevision)
  \/ Commands({"play", "pause"}, {AtMissing}, MaxRevision, MaxBurst)
  \/ PeriodicSync
  \/ TimersFire
  \/ Advance(HalfLease, CONTROL_LEASE_MS + HalfLease)

SpecTick == Init /\ [][NextTick]_vars

\* the messages of `msgs` addressed to `socket`
MessagesTo(msgs, socket) == SelectSeq(msgs, LAMBDA m : m.to = socket)

\* the connection belongs to the lease holder and now is not past the lease expiry
HeldByController(rid, socket) ==
  /\ rooms[rid].activeControllerId # Null
  /\ socketUserByConnection[socket] = rooms[rid].activeControllerId
  /\ now <= rooms[rid].activeControllerUntilMs

\* the playback of room rid after the step is the stored one extrapolated to now
ExtrapolatedToNow(rid) ==
  LET p == rooms[rid].playback
      q == rooms'[rid].playback
  IN /\ q.isPlaying /\ q.videoId = p.videoId
     /\ q.lastUpdatedAtMs = now
     /\ q.playbackTimeMs = p.playbackTimeMs + (now - p.lastUpdatedAtMs)

\* C17: at a tick, for every room that has at least one registered
\* connection and is playing, the stored playback is re-extrapolated to now and
\* one sync room_state of sender system is sent to every open connection except
\* those whose user is the lease holder with now not past the lease expiry;
\* a room that is paused or has no connection receives nothing and keeps its
\* playback; the tick never changes revision, member set or lease.
C17_PeriodicTick ==
  [][last'.op = "tick" =>
       \A rid \in DOMAIN rooms :
         /\ rooms'[rid].revision = rooms[rid].revision
         /\ rooms'[rid].members = rooms[rid].members
         /\ LeaseOf(rooms'[rid]) = LeaseOf(rooms[rid])
         /\ IF RoomSockets(socketsByRoom, rid) # {} /\ rooms[rid].playback.isPlaying
            THEN /\ ExtrapolatedToNow(rid)
                 /\ \A s \in SocketIds :
                      MessagesTo(sent', s) =
                        IF s \in OpenIn(rid) /\ ~HeldByController(rid, s)
                        THEN << RoomStateMsg(s, rooms'[rid], "sync", "system", Null) >>
                        ELSE <<>>
            ELSE /\ rooms'[rid].playback = rooms[rid].playback
                 /\ sent' = <<>>]_vars

\* a tick at the instant of the lease expiry skipped the open connection of the holder
\* and sent the extrapolated state to the connection of the other user
C17_Witness ==
  /\ last.op = "tick"
  /\ Len(sent) = 1
  /\ sent[1].reason = "sync" /\ sent[1].byUserId = "system"
  /\ sent[1].playback.playbackTimeMs > 0
  /\ \E rid \in DOMAIN rooms :
       /\ now = rooms[rid].activeControllerUntilMs
       /\ \E s \in RoomSockets(socketsByRoom, rid) :
            /\ readyState[s] = "OPEN"
            /\ socketUserByConnection[s] = rooms[rid].activeControllerId
       /\ socketUserByConnection[sent[1].to] # rooms[rid].activeControllerId

(***************************************************************************)
(* Order of the commands of one connection                                 *)
(***************************************************************************)
\* the step handles a message that has just arrived on a connection
HandlesMessage == last'.op \in {"playback", "chat", "profile", "sync"}

\* the step changes room state or the chat log, or writes to a socket
HasEffects == rooms' # rooms \/ chatByRoom' # chatByRoom \/ sent' # <<>>

\* an earlier changeVideo of the connection is still waiting for its video lookup
LookupPending(socket) == \E i \in 1 .. Len(lookups) : lookups[i].socket = socket

\* the step completes the oldest pending changeVideo of its connection
CompletesOldest ==
  \E i \in 1 .. Len(lookups) :
    /\ lookups' = RemoveAt(lookups, i)
    /\ lookups[i].socket = last'.sock
    /\ \A j \in 1 .. i - 1 : lookups[j].socket # last'.sock

\* C18: within one connection, messages are processed in arrival order:
\* the state effects and outbound messages of a command happen only after those
\* of every earlier command of the same connection, including an earlier
\* changeVideo that waits on the video lookup.
C18_ArrivalOrder ==
  [][/\ (HandlesMessage /\ HasEffects) => ~LookupPending(last'.sock)
     /\ last'.op = "lookup" => CompletesOldest]_vars

(***************************************************************************)
(* SpecAll: every handler of Spec together with sync requests and the      *)
(* periodic sync                                                           *)
(***************************************************************************)
NextAll ==
  \/ Next
  \/ Syncs
  \/ PeriodicSync

SpecAll == Init /\ [][NextAll]_vars

\* the messages that carry a snapshot of a room or its revision
SnapshotTypes == {"welcome", "room_state", "chat_message"}

\* C19: every welcome, room_state of any reason and chat_message written
\* to a connection carries the revision the room of that connection has when
\* the handler that sends it has applied its mutation: never a lower one, and
\* never one the room has not reached.
C19_SnapshotRevision ==
  [][\A i \in 1 .. Len(sent') :
       sent'[i].type \in SnapshotTypes =>
         /\ \E rid \in DOMAIN socketsByRoom' : sent'[i].to \in socketsByRoom'[rid]
         /\ \A rid \in DOMAIN socketsByRoom' :
              sent'[i].to \in socketsByRoom'[rid] =>
                /\ sent'[i].revision = rooms'[rid].revision
                /\ sent'[i].revision >= rooms[rid].revision]_vars

\* the debounce timer has broadcast a playback event at the room's revision, which a
\* chat post had raised after the event was queued
C19_Witness ==
  /\ last.op = "flush"
  /\ Len(sent) >= 1
  /\ \E rid \in DOMAIN rooms :
       /\ LogOf(chatByRoom, rid) # <<>>
       /\ \A i \in 1 .. Len(sent) :
            sent[i].reason = "playback" /\ sent[i].revision = rooms[rid].revision
       /\ rooms[rid].revision = MaxRevision

\* C20: a room is created with revision 1, paused at position 0, with
\* the creator as its only member and as lease holder; afterwards the room
\* stays and its revision never decreases, whatever joins, leaves, playback
\* commands, chat posts, nickname changes, sync requests, ticks and timer
\* firings follow.
C20_RevisionMonotone ==
  [][/\ \A rid \in DOMAIN rooms :
          /\ rid \in DOMAIN rooms'
          /\ rooms'[rid].revision >= rooms[rid].revision
     /\ \A rid \in DOMAIN rooms' \ DOMAIN rooms :
          /\ last'.op = "create"
          /\ rooms'[rid].revision = 1
          /\ ~rooms'[rid].playback.isPlaying
          /\ rooms'[rid].playback.playbackTimeMs = 0
          /\ rooms'[rid].members = {last'.userId}
          /\ rooms'[rid].activeControllerId = last'.userId]_vars

\* the creator has left and a sync was answered at the highest revision of the model
C20_Witness ==
  /\ last.op = "sync"
  /\ \E rid \in DOMAIN rooms :
       /\ rooms[rid].revision = MaxRevision
       /\ rooms[rid].creatorId \notin rooms[rid].members
       /\ Len(sent) = 1 /\ sent[1].revision = MaxRevision

(***************************************************************************)
(* Suspension of a command handler in await getVideoById                   *)
(***************************************************************************)
\* the step runs a changeVideo handler up to its suspension
Suspends == last'.op = "playback" /\ last'.result = "pending"

\* the step resumes the suspended handler lookups[i]
ResumesLookup(i) ==
  /\ last'.op = "lookup"
  /\ i \in 1 .. Len(lookups)
  /\ lookups' = RemoveAt(lookups, i)

\* the room is as the handler lk left it when it suspended
AsLeftBy(lk) ==
  /\ LeaseOf(rooms[lk.roomId]) = << lk.userId, lk.currentMs + CONTROL_LEASE_MS >>
  /\ normalizePlayback(rooms[lk.roomId].playback, lk.currentMs) = lk.playback

\* C21: handlers never suspend mid-mutation: a command handler reaches its
\* only suspension point (resolving a video id) before it has mutated any room
\* state, lease holder and expiry included, so no other handler, tick or timer
\* callback runs between its first and its last mutation of the room: the
\* step that suspends a handler leaves the room as it was, and the handler
\* resumes on the room as it was when it suspended.
C21_NoSuspensionMidMutation ==
  [][/\ Suspends => rooms' = rooms
     /\ \A i \in 1 .. Len(lookups) : ResumesLookup(i) => AsLeftBy(lookups[i])]_vars

(***************************************************************************)
(* A join refused for its nickname                                         *)
(***************************************************************************)
\* the step is a WebSocket join of room rid refused with invalid_nickname
JoinRefused(rid) ==
  /\ last'.op = "connect"
  /\ last'.roomId = rid
  /\ last'.result = "invalid_nickname"

\* C22: a WebSocket join whose nickname is rejected with invalid_nickname
\* leaves the room unmodified: the user is not added to the member set, no
\* profile is created, the revision is unchanged and no connection is
\* registered.
C22_RefusedJoinLeavesRoom ==
  [][\A rid \in DOMAIN rooms : JoinRefused(rid) =>
       /\ rooms'[rid].members = rooms[rid].members
       /\ rooms'[rid].memberProfiles = rooms[rid].memberProfiles
       /\ rooms'[rid].revision = rooms[rid].revision
       /\ socketsByRoom' = socketsByRoom
       /\ socketUserByConnection' = socketUserByConnection]_vars

(***************************************************************************)
(* Release of the control lease                                            *)
(***************************************************************************)
\* the step removes the lease holder of room rid from the room
HolderRemoved(rid) ==
  /\ last'.op \in {"close", "leave"}
  /\ last'.result = "left"
  /\ last'.userId = rooms[rid].activeControllerId

\* the lease of room rid passes to another user after its expiry, by a grant
LeasePasses(rid) ==
  /\ rooms'[rid].activeControllerId # rooms[rid].activeControllerId
  /\ \/ rooms[rid].activeControllerId = Null
     \/ now > rooms[rid].activeControllerUntilMs
  /\ last'.op = "playback"
  /\ LeaseOf(rooms'[rid]) = << last'.userId, now + CONTROL_LEASE_MS >>

\* C23 as stated: once a room exists, no operation explicitly releases its
\* control lease: the holder is never reset to "no holder" and the expiry is
\* never reset; the lease only ends by the passing of its 2000 ms duration or
\* by a grant to another user after expiry.
C23_NeverReleased ==
  [][\A rid \in DOMAIN rooms :
       /\ rooms'[rid].activeControllerId # Null
       /\ rooms'[rid].activeControllerUntilMs >= rooms[rid].activeControllerUntilMs
       /\ rooms'[rid].activeControllerId = rooms[rid].activeControllerId
            \/ LeasePasses(rid)]_vars

\* C23, amended: the removal of the lease holder from the room (HTTP leave of
\* the holder, close of the holder's last connection) releases the lease: the
\* holder is reset to "no holder" and the expiry to 0.  No other operation
\* does: otherwise the holder is never reset, the expiry never decreases, and
\* the lease passes to another user only by a grant after its expiry or after
\* such a release.
C23_ReleasedOnRemoval ==
  [][\A rid \in DOMAIN rooms :
       IF HolderRemoved(rid)
       THEN LeaseOf(rooms'[rid]) = << Null, 0 >>
       ELSE /\ rooms'[rid].activeControllerId = Null
                 => rooms[rid].activeControllerId = Null
            /\ rooms'[rid].activeControllerUntilMs >= rooms[rid].activeControllerUntilMs
            /\ rooms'[rid].activeControllerId = rooms[rid].activeControllerId
                 \/ LeasePasses(rid)]_vars

\* the holder's last connection closed within the lease period, another member stays
\* in a room that has no holder
C23_Witness ==
  /\ last.op = "close" /\ last.result = "left"
  /\ now < CONTROL_LEASE_MS
  /\ \E rid \in DOMAIN rooms :
       /\ LeaseOf(rooms[rid]) = << Null, 0 >>
       /\ last.userId \notin rooms[rid].members
       /\ rooms[rid].members # {}

(***************************************************************************)
(* What the close of a connection releases                                 *)
(***************************************************************************)
\* the pending burst entries of room rid with an event queued from the connection
QueuedFrom(pending, rid, socket) ==
  {key \in DOMAIN pending :
     /\ key[1] = rid
     /\ \E i \in 1 .. Len(pending[key].events) :
          pending[key].events[i].excludeSocket = socket}

\* the step is the close of a connection of room rid
ClosedIn(rid) ==
  /\ last'.op = "close"
  /\ last'.sock \in RoomSockets(socketsByRoom, rid)

\* C24 as stated: the close of any connection releases that connection's
\* pending debounce entries and its user's lease: after it no pending burst
\* entry queued from that connection remains and the room's lease is not held
\* by that connection's user, also when the same user still has another open
\* connection.
C24_CloseReleases ==
  [][\A rid \in DOMAIN rooms : ClosedIn(rid) =>
       /\ QueuedFrom(pendingPlaybackBurstsByRoomUser', rid, last'.sock) = {}
       /\ rooms'[rid].activeControllerId # last'.userId]_vars

\* C24, amended: the close of the last open connection of a member releases
\* the user's pending debounce entry and the user's lease: after it no pending
\* burst entry of that user (so none queued from that connection) remains and
\* the room's lease is not held by that user.  The close of a connection
\* whose user still has another connection in the room, or is no longer a
\* member, releases nothing: pending entries and lease stay as they were.
C24_LastCloseReleases ==
  [][\A rid \in DOMAIN rooms : ClosedIn(rid) =>
       IF last'.result = "left"
       THEN /\ << rid, last'.userId >> \notin DOMAIN pendingPlaybackBurstsByRoomUser'
            /\ QueuedFrom(pendingPlaybackBurstsByRoomUser', rid, last'.sock) = {}
            /\ LeaseOf(rooms'[rid]) =
                 IF rooms[rid].activeControllerId = last'.userId
                 THEN << Null, 0 >> ELSE LeaseOf(rooms[rid])
            /\ ~hasOpenSocketForUser(socketsByRoom, socketUserByConnection, rid,
                                     last'.userId, last'.sock)
       ELSE /\ pendingPlaybackBurstsByRoomUser' = pendingPlaybackBurstsByRoomUser
            /\ LeaseOf(rooms'[rid]) = LeaseOf(rooms[rid])
            /\ \/ hasOpenSocketForUser(socketsByRoom, socketUserByConnection, rid,
                                       last'.userId, last'.sock)
               \/ last'.userId \notin rooms[rid].members]_vars

\* the only connection of the model closed in the instant its user, the lease holder,
\* had started the room: the burst queued by that play is gone, the lease is free
C24_Witness ==
  /\ last.op = "close" /\ last.result = "left"
  /\ now = 0
  /\ DOMAIN readyState = {1}
  /\ pendingPlaybackBurstsByRoomUser = EmptyMap
  /\ \E rid \in DOMAIN rooms :
       /\ rooms[rid].playback.isPlaying
       /\ LeaseOf(rooms[rid]) = << Null, 0 >>

(***************************************************************************)
(* SpecClock: the position of a room over three seconds of joins, sync     *)
(* requests, ticks, timers, nickname changes, chat posts and commands      *)
(***************************************************************************)
NextClock ==
  \/ CreateFromVideo
  \/ Joins(Users, {Undefined}, MaxRevision, MainSockets)
  \/ Syncs
  \/ PeriodicSync
  \/ Profiles({<<"n">>}, MaxRevision)
  \/ Chats({<<"h">>}, {Undefined}, MaxRevision)
  \/ Commands({"play", "pause", "seek"}, {AtNumber(500)}, MaxRevision, MaxBurst)
  \/ TimersFire
  \/ Advance(HalfLease, CONTROL_LEASE_MS + HalfLease)

SpecClock == Init /\ [][NextClock]_vars

\* the effective position at time t: the stored position when paused, the stored
\* position plus the time since the stored timestamp when playing
EffectivePosition(playback, t) ==
  IF playback.isPlaying
  THEN playback.playbackTimeMs + (t - playback.lastUpdatedAtMs)
  ELSE playback.playbackTimeMs

\* the step is a join, sync request, periodic tick, nickname change, chat post, denied
\* command or no-op command
KeepsPosition ==
  \/ last'.op \in {"connect", "sync", "tick", "profile", "chat"}
  \/ last'.op = "playback" /\ last'.result \in {"denied", "noop"}

AppliedCommand(action) ==
  last'.op = "playback" /\ last'.action = action /\ last'.result = "applied"

\* C25: elapsed time is never lost or double-counted: the effective
\* position of a room is left unchanged by join, sync request, periodic tick,
\* nickname change, chat post, a denied command and a no-op command; pause
\* stores exactly the effective position at the instant it applies and play
\* keeps the stored position; the stored position is >= 0 in every reachable
\* state.
C25_EffectivePosition ==
  [][\A rid \in DOMAIN rooms' :
       /\ rooms'[rid].playback.playbackTimeMs >= 0
       /\ rid \in DOMAIN rooms =>
            LET before == rooms[rid].playback
                after == rooms'[rid].playback
            IN /\ KeepsPosition =>
                    /\ after.isPlaying = before.isPlaying
                    /\ EffectivePosition(after, now) = EffectivePosition(before, now)
               /\ AppliedCommand("pause") =>
                    /\ ~after.isPlaying
                    /\ after.playbackTimeMs = EffectivePosition(before, now)
               /\ AppliedCommand("play") =>
                    /\ after.isPlaying
                    /\ after.playbackTimeMs = before.playbackTimeMs
                    /\ EffectivePosition(after, now) = EffectivePosition(before, now)]_vars

\* a room that played from its start for three seconds, with other operations on the
\* way, is paused at 3000
C25_Witness ==
  /\ last.op = "playback" /\ last.action = "pause" /\ last.result = "applied"
  /\ now = CONTROL_LEASE_MS + HalfLease
  /\ \E rid \in DOMAIN rooms :
       /\ ~rooms[rid].playback.isPlaying
       /\ rooms[rid].playback.playbackTimeMs = now
       /\ rooms[rid].revision = MaxRevision

(***************************************************************************)
(* SpecDebounce: play, pause and seek at intervals of half a debounce      *)
(* window, and the debounce timers                                         *)
(***************************************************************************)
HalfWindow == PLAYBACK_DEDUPE_WINDOW_MS \div 2

NextDebounce ==
  \/ CreateFromVideo
  \/ Joins(Users, {Undefined}, MaxRevision, MainSockets)
  \/ Commands({"play", "pause", "seek"}, {AtNumber(12000)}, MaxRevision + BurstLen, BurstLen)
  \/ TimersFire
  \/ Advance(HalfWindow, 2 * PLAYBACK_DEDUPE_WINDOW_MS)

SpecDebounce == Init /\ [][NextDebounce]_vars

\* the step applies a play, pause or seek
AppliesPlayback ==
  /\ last'.op = "playback"
  /\ last'.action \in {"play", "pause", "seek"}
  /\ last'.result = "applied"

\* the messages of `msgs` that are room_state messages of reason playback
PlaybackStates(msgs) ==
  SelectSeq(msgs, LAMBDA m : m.type = "room_state" /\ m.reason = "playback")

\* the applied event is echoed once to its connection and to no other, and (re)starts
\* the window of its user: the timer is due 250 ms from now, the event is queued
EchoedAndQueued(rid) ==
  LET key == << rid, last'.userId >>
      pending == pendingPlaybackBurstsByRoomUser
      queued == IF key \in DOMAIN pending THEN pending[key].events ELSE <<>>
  IN /\ Len(sent') = 1
     /\ PlaybackStates(sent') = sent'
     /\ sent'[1].to = last'.sock
     /\ sent'[1].action = last'.action
     /\ key \in DOMAIN pendingPlaybackBurstsByRoomUser'
     /\ pendingPlaybackBurstsByRoomUser'[key].timeoutAt = now + PLAYBACK_DEDUPE_WINDOW_MS
     /\ pendingPlaybackBurstsByRoomUser'[key].events =
          Append(queued, [action |-> last'.action, excludeSocket |-> last'.sock])
     /\ \A other \in DOMAIN pendingPlaybackBurstsByRoomUser' \ {key} :
          /\ other \in DOMAIN pending
          /\ pendingPlaybackBurstsByRoomUser'[other] = pending[other]

\* the broadcast of the queued events of a user: not before the window that the last
\* applied event of that user restarted has elapsed, and never to the connection an
\* event came from
BroadcastWhenDue(rid) ==
  LET key == << rid, last'.userId >>
      pending == pendingPlaybackBurstsByRoomUser
  IN /\ last'.op = "flush"
     /\ key \in DOMAIN pending
     /\ now >= pending[key].timeoutAt
     /\ pendingPlaybackBurstsByRoomUser' = MapDelete(pending, key)
     /\ \A i \in 1 .. Len(sent') :
          \E j \in 1 .. Len(pending[key].events) :
            /\ pending[key].events[j].action = sent'[i].action
            /\ pending[key].events[j].excludeSocket # sent'[i].to

\* C26: after an applied play/pause/seek the originating connection
\* receives exactly one room_state echo immediately, and no other connection
\* receives a playback broadcast for that event before 250 ms have passed
\* without a further applied play/pause/seek of the same user in that room;
\* every further such event restarts the 250 ms window, and at most one timer
\* is pending per (room, user).
C26_DebounceWindow ==
  [][\A rid \in DOMAIN rooms :
       IF AppliesPlayback THEN EchoedAndQueued(rid)
       ELSE /\ PlaybackStates(sent') # <<>> => BroadcastWhenDue(rid)
            /\ last'.op # "flush" =>
                 pendingPlaybackBurstsByRoomUser' = pendingPlaybackBurstsByRoomUser]_vars

\* a play at 0 and a pause of the same user 125 ms later reach the other connection
\* together, 250 ms after the pause
C26_Witness ==
  /\ last.op = "flush"
  /\ now = HalfWindow + PLAYBACK_DEDUPE_WINDOW_MS
  /\ Len(sent) = 2
  /\ sent[1].action = "play" /\ sent[2].action = "pause"
  /\ sent[1].to = sent[2].to
  /\ \E rid \in DOMAIN rooms :
       /\ ~rooms[rid].playback.isPlaying
       /\ rooms[rid].playback.lastUpdatedAtMs = HalfWindow
       /\ rooms[rid].playback.playbackTimeMs = HalfWindow

(***************************************************************************)
(* The debounce timer at fire time                                         *)
(***************************************************************************)
\* the step removes a member of room rid (HTTP leave, close of the last connection)
RemovesMember(rid) ==
  /\ last'.op \in {"close", "leave"}
  /\ last'.result = "left"
  /\ last'.userId \in rooms[rid].members

\* every message the timer writes carries the room as it is when the timer fires
CarriesCurrentState(rid) ==
  \A i \in 1 .. Len(sent') :
    /\ sent'[i].type = "room_state" /\ sent'[i].reason = "playback"
    /\ sent'[i].byUserId = last'.userId
    /\ sent'[i].revision = rooms[rid].revision
    /\ sent'[i].playback = rooms[rid].playback
    /\ sent'[i].members = rooms[rid].members

\* C27: a debounce timer acts on the state current at fire time: the
\* broadcast it emits carries the room's revision and playback as of the
\* firing (not as of when the events were queued), and if the user was
\* removed from the room before the window elapsed the timer emits nothing:
\* a removal cancels the pending timer of the user, and a timer that fires
\* for a user who is not a member writes no message.
C27_TimerAtFireTime ==
  [][\A rid \in DOMAIN rooms :
       /\ last'.op = "flush" =>
            /\ CarriesCurrentState(rid)
            /\ rooms'[rid].revision = rooms[rid].revision
            /\ rooms'[rid].playback = rooms[rid].playback
            /\ last'.userId \notin rooms[rid].members => sent' = <<>>
       /\ RemovesMember(rid) =>
            /\ << rid, last'.userId >> \notin DOMAIN pendingPlaybackBurstsByRoomUser'
            /\ PlaybackStates(sent') = <<>>]_vars

(***************************************************************************)
(* A changeVideo that changes the video                                    *)
(***************************************************************************)
\* the room after the step shows the video, reset and paused, one revision later
VideoReset(rid, video) ==
  /\ rooms'[rid].playback.videoId = video
  /\ rooms'[rid].playback.playbackTimeMs = 0
  /\ ~rooms'[rid].playback.isPlaying
  /\ rooms'[rid].revision = rooms[rid].revision + 1

\* the step writes one room_state of reason video_change to every open connection of
\* the room and nothing else, and queues nothing for the debounce timer
VideoChangeDelivered(rid, userId) ==
  /\ \A i \in 1 .. Len(sent') :
       /\ sent'[i].type = "room_state" /\ sent'[i].reason = "video_change"
       /\ sent'[i].byUserId = userId
       /\ sent'[i].revision = rooms'[rid].revision
       /\ sent'[i].playback = rooms'[rid].playback
  /\ \A s \in SocketIds :
       Len(MessagesTo(sent', s)) = IF s \in OpenIn(rid) THEN 1 ELSE 0
  /\ pendingPlaybackBurstsByRoomUser' = pendingPlaybackBurstsByRoomUser

\* C28: a granted changeVideo whose resolved id differs from the room's
\* current video sets position = 0, isPlaying = false and the new video id,
\* increases the revision by 1, and is delivered immediately (not through the
\* burst deduplicator) as one room_state with reason video_change to every
\* open connection of the room, the originator included.
C28_VideoChange ==
  [][\A i \in 1 .. Len(lookups) :
       LET lk == lookups[i]
           video == getVideoById(lk.videoId)
       IN (ResumesLookup(i) /\ video # Null
             /\ video # rooms[lk.roomId].playback.videoId) =>
            /\ VideoReset(lk.roomId, video)
            /\ VideoChangeDelivered(lk.roomId, lk.userId)]_vars

(***************************************************************************)
(* SpecTabs: users with several connections (tabs) join, rename themselves *)
(* and chat; connections close and users leave                             *)
(***************************************************************************)
NextTabs ==
  \/ CreateFromVideo
  \/ Joins(Users, {Undefined, <<"n">>}, MaxRevision + 1, MaxSockets)
  \/ Closes(MaxRevision + 1)
  \/ Leaves(Users, MaxRevision + 1)
  \/ Profiles({<<"n">>, <<"m">>}, MaxRevision + 1)
  \/ Chats({<<"h">>}, {Undefined}, MaxRevision + 1)

SpecTabs == Init /\ [][NextTabs]_vars

\* the step is an accepted WebSocket join of room rid by a user who is a member already
Rejoins(rid) ==
  /\ last'.op = "connect"
  /\ last'.roomId = rid
  /\ last'.result = "joined"
  /\ last'.userId \in rooms[rid].members

\* the connection receives exactly one message, the welcome with the room after the
\* join and the chat log
Welcomed(rid, socket) ==
  LET mine == MessagesTo(sent', socket)
  IN /\ Len(mine) = 1
     /\ mine[1].type = "welcome"
     /\ mine[1].revision = rooms'[rid].revision
     /\ mine[1].members = rooms'[rid].members
     /\ mine[1].playback = rooms'[rid].playback
     /\ mine[1].messages = LogOf(chatByRoom, rid)

\* the connection receives exactly one message, the room_state of the join
ToldOfJoin(rid, socket) ==
  LET mine == MessagesTo(sent', socket)
  IN /\ Len(mine) = 1
     /\ mine[1].type = "room_state" /\ mine[1].reason = "join"
     /\ mine[1].byUserId = last'.userId
     /\ mine[1].revision = rooms'[rid].revision

\* C29: join is idempotent on the member set: a WebSocket join of a user
\* who is already a member (for example a second tab) leaves the member set
\* and member count unchanged, yet still increases the revision by 1, sends
\* exactly one welcome (with the post-join revision and the chat log) to the
\* joining connection and a join room_state to every other open connection.
C29_RejoinIdempotent ==
  [][\A rid \in DOMAIN rooms : Rejoins(rid) =>
       /\ rooms'[rid].members = rooms[rid].members
       /\ Cardinality(rooms'[rid].members) = Cardinality(rooms[rid].members)
       /\ rooms'[rid].revision = rooms[rid].revision + 1
       /\ chatByRoom' = chatByRoom
       /\ Welcomed(rid, last'.sock)
       /\ \A s \in SocketIds \ {last'.sock} :
            IF s \in OpenIn(rid) THEN ToldOfJoin(rid, s)
            ELSE MessagesTo(sent', s) = <<>>]_vars

\* a second tab of a user joins a room with a chat log while a connection of that user
\* and one of the other user are open: one welcome with the log, two join room_states
C29_Witness ==
  /\ last.op = "connect" /\ last.result = "joined" /\ last.sock = MaxSockets
  /\ Len(sent) = MaxSockets
  /\ sent[1].type = "welcome" /\ sent[1].messages # <<>>
  /\ \E rid \in DOMAIN rooms :
       /\ Cardinality(rooms[rid].members) = 2
       /\ Cardinality(ConnectionsOf(rid, last.userId)) = 2
       /\ sent[1].revision = rooms[rid].revision

(***************************************************************************)
(* A chat post and the stored messages                                     *)
(***************************************************************************)
\* the step is a successful chat post in room rid
Posts(rid) ==
  /\ last'.op = "chat"
  /\ last'.result = "posted"
  /\ last'.sock \in RoomSockets(socketsByRoom, rid)

\* the nickname of the user in the room, the user id for a user without a profile
NicknameOf(room, userId) ==
  IF userId \in DOMAIN room.memberProfiles
  THEN room.memberProfiles[userId] ELSE AsText(userId)

\* the connection receives exactly one message, the chat_message of the new entry
\* with the new revision
ToldOfPost(rid, socket) ==
  LET mine == MessagesTo(sent', socket)
      log == LogOf(chatByRoom', rid)
  IN /\ Len(mine) = 1
     /\ mine[1].type = "chat_message"
     /\ mine[1].chat = log[Len(log)]
     /\ mine[1].revision = rooms'[rid].revision

\* C30: a successful chat post appends exactly one message carrying the
\* author's nickname as of post time (later nickname changes do not alter
\* stored messages: no other step changes the log), increases the revision by
\* 1, and sends one chat_message carrying the new revision to every open
\* connection of the room, the author's included.
C30_ChatPost ==
  [][\A rid \in DOMAIN rooms :
       IF Posts(rid)
       THEN LET old == LogOf(chatByRoom, rid)
                new == LogOf(chatByRoom', rid)
            IN /\ Len(new) = Len(old) + 1
               /\ SubSeq(new, 1, Len(old)) = old
               /\ new[Len(new)].userId = last'.userId
               /\ new[Len(new)].userDisplayName = NicknameOf(rooms[rid], last'.userId)
               /\ new[Len(new)].message = Trim(last'.message)
               /\ \A i \in 1 .. Len(old) : new[Len(new)].id # old[i].id
               /\ rooms'[rid].revision = rooms[rid].revision + 1
               /\ \A s \in SocketIds :
                    IF s \in OpenIn(rid) THEN ToldOfPost(rid, s)
                    ELSE MessagesTo(sent', s) = <<>>
       ELSE LogOf(chatByRoom', rid) = LogOf(chatByRoom, rid)]_vars

\* a user posted, changed nickname and posted again: the log holds both messages, each
\* with the nickname of its time, and the post reached the author and another connection
C30_Witness ==
  /\ last.op = "chat" /\ last.result = "posted"
  /\ Len(sent) >= 2
  /\ \E i \in 1 .. Len(sent) : sent[i].to = last.sock
  /\ \E rid \in DOMAIN rooms :
       LET log == LogOf(chatByRoom, rid)
       IN /\ Len(log) = 2
          /\ log[1].userId = last.userId /\ log[2].userId = last.userId
          /\ log[1].userDisplayName # log[2].userDisplayName
          /\ log[2].userDisplayName = rooms[rid].memberProfiles[last.userId]
          /\ sent[1].revision = rooms[rid].revision

(***************************************************************************)
(* socket.on("message"): payloads that no branch of the handler expects    *)
(***************************************************************************)
\* JSON that parses to a number, string or array, or an object of an unknown type:
\* payload.type matches no branch and the handler returns without a word
Ignored(socket, payload) ==
  /\ socket \in Registered
  /\ payload \in {"scalar", "unknown_type"}
  /\ sent' = <<>>
  /\ last' = [Did("message", socket, socketUserByConnection[socket], "ignored")
                EXCEPT !.action = payload]
  /\ UNCHANGED << now, rooms, chatByRoom, socketsByRoom, socketUserByConnection,
                  readyState, pendingPlaybackBurstsByRoomUser, recentPauseByRoomUser,
                  lookups, nextMessageId, obs >>

\* the JSON value null (payload.type throws) and a chat object without a message
\* string (payload.message.trim() throws): a TypeError inside the async handler. The
\* promise of the handler is rejected and nothing handles the rejection: the runtime
\* reports it and goes on, or it terminates the process and with it every room,
\* connection and timer
Throws(socket, payload) ==
  /\ socket \in Registered
  /\ payload \in {"null", "chat_without_message"}
  /\ sent' = <<>>
  /\ \/ /\ last' = [Did("message", socket, socketUserByConnection[socket],
                        "unhandled_rejection") EXCEPT !.action = payload]
        /\ UNCHANGED << rooms, chatByRoom, socketsByRoom, socketUserByConnection,
                        readyState, pendingPlaybackBurstsByRoomUser,
                        recentPauseByRoomUser, lookups, obs >>
     \/ /\ last' = [Did("message", socket, socketUserByConnection[socket],
                        "process_exit") EXCEPT !.action = payload]
        /\ rooms' = EmptyMap
        /\ chatByRoom' = EmptyMap
        /\ socketsByRoom' = EmptyMap
        /\ socketUserByConnection' = EmptyMap
        /\ readyState' = [s \in DOMAIN readyState |-> "CLOSED"]
        /\ pendingPlaybackBurstsByRoomUser' = EmptyMap
        /\ recentPauseByRoomUser' = EmptyMap
        /\ lookups' = <<>>
        /\ obs' = NoObs
  /\ UNCHANGED << now, nextMessageId >>

(***************************************************************************)
(* SpecInvalid: chat, profile and playback messages that fail validation,  *)
(* and payloads that are not what the handler expects                      *)
(***************************************************************************)
NextInvalid ==
  \/ CreateFromVideo
  \/ Joins(Users, {Undefined}, MaxRevision, MainSockets)
  \/ Leaves(Users, MaxRevision)
  \/ Chats(ChatTexts, ReplyIds, MaxRevision)
  \/ Profiles(Nicknames, MaxRevision)
  \/ \E socket \in SocketIds : InvalidJson(socket)
  \/ \E socket \in SocketIds : Profile(socket, "rename", <<"n">>)
  \/ Commands({"stop"}, {AtMissing}, MaxRevision, MaxBurst)
  \/ \E socket \in SocketIds, payload \in {"scalar", "unknown_type"} :
       Ignored(socket, payload)
  \/ \E socket \in SocketIds, payload \in {"null", "chat_without_message"} :
       Throws(socket, payload)

SpecInvalid == Init /\ [][NextInvalid]_vars

\* the errors of the validation of a chat or profile command
CommandErrors ==
  {"message_empty", "invalid_reply_message_id", "reply_message_not_found",
   "invalid_nickname"}

\* the step is a chat or profile command that fails validation
FailsCommand ==
  /\ last'.op \in {"chat", "profile"}
  /\ last'.result \in CommandErrors

\* the step writes exactly one message, the error, to the connection of the command
\* (nothing if the server is closing that connection) and closes no connection
OneErrorToSender ==
  /\ IF readyState[last'.sock] = "OPEN"
     THEN /\ Len(sent') = 1
          /\ sent'[1].to = last'.sock
          /\ sent'[1].type = "error"
          /\ sent'[1].error = last'.result
     ELSE sent' = <<>>
  /\ readyState' = readyState
  /\ socketsByRoom' = socketsByRoom
  /\ socketUserByConnection' = socketUserByConnection

\* C31: a chat or profile command that fails validation (message_empty,
\* invalid_reply_message_id, reply_message_not_found, invalid_nickname) sends
\* one error message to the originating connection only, keeps the connection
\* open, and leaves the chat log, the user's profile and the revision
\* unchanged, with no broadcast to other connections.
C31_FailedCommand ==
  [][FailsCommand =>
       /\ OneErrorToSender
       /\ chatByRoom' = chatByRoom
       /\ nextMessageId' = nextMessageId
       /\ rooms' = rooms]_vars

\* a reply to a message that is not in the non-empty log was refused: one error to
\* the sender while another connection is open
C31_Witness ==
  /\ last.op = "chat" /\ last.result = "reply_message_not_found"
  /\ Len(sent) = 1 /\ sent[1].to = last.sock /\ sent[1].error = last.result
  /\ \E rid \in DOMAIN rooms :
       /\ LogOf(chatByRoom, rid) # <<>>
       /\ Cardinality(OpenIn(rid)) = 2

\* the step handles a payload that the protocol does not define: text that is not
\* JSON, JSON that is not an object, an unknown type, an unknown profile or playback
\* action, a chat without a message string
MalformedPayload ==
  \/ last'.op \in {"invalid_json", "message"}
  \/ last'.op = "profile" /\ last'.result = "invalid_profile_action"
  \/ last'.op = "playback" /\ last'.action = "stop"

\* C32: no inbound message is fatal to the process or escapes as an unhandled
\* failure: a malformed payload (invalid JSON, JSON that is not an object, a
\* chat message without a text string, an unknown type or action) is answered
\* with an error message to the originating connection, the connection stays
\* open and the room state is unchanged.
C32_MalformedAnswered ==
  [][MalformedPayload =>
       /\ last'.result \notin {"unhandled_rejection", "process_exit"}
       /\ readyState[last'.sock] = "OPEN" =>
            /\ Len(sent') = 1
            /\ sent'[1].to = last'.sock
            /\ sent'[1].type = "error"
       /\ readyState' = readyState
       /\ rooms' = rooms
       /\ chatByRoom' = chatByRoom]_vars

\* the step is a sync request of a connection of room rid
SyncIn(rid) ==
  /\ last'.op = "sync"
  /\ last'.sock \in RoomSockets(socketsByRoom, rid)

\* playback `after` is playback `before` extrapolated to time t: the same video and
\* play state, the same position at t, and stamped t while playing
ExtrapolatedTo(before, after, t) ==
  /\ after.videoId = before.videoId
  /\ after.isPlaying = before.isPlaying
  /\ after.playbackTimeMs = EffectivePosition(before, t)
  /\ before.isPlaying => after.lastUpdatedAtMs = t
  /\ ~before.isPlaying => after = before

\* C33: a sync request changes neither the revision, the member set, the lease
\* nor the chat log; it stores the playback extrapolated to now and answers
\* with exactly one room_state (reason sync) to the requesting connection
\* only, never to other connections.
C33_SyncFrame ==
  [][\A rid \in DOMAIN rooms :
       SyncIn(rid) =>
         /\ rooms'[rid].revision = rooms[rid].revision
         /\ rooms'[rid].members = rooms[rid].members
         /\ LeaseOf(rooms'[rid]) = LeaseOf(rooms[rid])
         /\ chatByRoom' = chatByRoom
         /\ ExtrapolatedTo(rooms[rid].playback, rooms'[rid].playback, now)
         /\ \A other \in DOMAIN rooms \ {rid} : rooms'[other] = rooms[other]
         /\ IF readyState[last'.sock] = "OPEN"
            THEN /\ Len(sent') = 1
                 /\ sent'[1].to = last'.sock
                 /\ sent'[1].type = "room_state"
                 /\ sent'[1].reason = "sync"
                 /\ sent'[1].revision = rooms[rid].revision
                 /\ sent'[1].playback = rooms'[rid].playback
                 /\ sent'[1].members = rooms[rid].members
            ELSE sent' = <<>>]_vars

\* a sync request was answered while the room was playing since an earlier instant,
\* another connection was open and the chat log was not empty
C33_Witness ==
  /\ last.op = "sync"
  /\ Len(sent) = 1 /\ sent[1].reason = "sync" /\ sent[1].to = last.sock
  /\ \E rid \in DOMAIN rooms :
       /\ last.sock \in RoomSockets(socketsByRoom, rid)
       /\ rooms[rid].playback.isPlaying
       /\ rooms[rid].playback.lastUpdatedAtMs = now
       /\ rooms[rid].playback.playbackTimeMs > 0
       /\ Cardinality(OpenIn(rid)) = 2
       /\ LogOf(chatByRoom, rid) # <<>>

\* the step writes the state change of a playback command to a room: play, pause and
\* seek in the handler that received them, changeVideo when its lookup has completed
WritesPlayback ==
  /\ last'.op \in {"playback", "lookup"}
  /\ last'.result = "applied"

\* C34: whenever the state change of a playback command is written to the room
\* (playback replaced, revision bumped), the issuing user is the room's lease
\* holder and the lease has not expired at that moment; this holds also for a
\* changeVideo whose video lookup completes after other commands, a leave, or
\* the lease expiry have intervened.
C34_WriterHoldsLease ==
  [][\A rid \in DOMAIN rooms :
       (WritesPlayback /\ rooms'[rid].revision > rooms[rid].revision) =>
         /\ rooms'[rid].activeControllerId = last'.userId
         /\ now' <= rooms'[rid].activeControllerUntilMs]_vars

\* C35: in every reachable state, every user id that has an entry in a room's
\* profile map is in that room's member set; in particular a leave request
\* (HTTP or connection close) for a user who is not a member leaves the
\* profile map unchanged.
C35_ProfilesOfMembers ==
  \A rid \in DOMAIN rooms : DOMAIN rooms[rid].memberProfiles \subseteq rooms[rid].members

\* the revisions of the welcome, room_state and chat_message messages among msgs that
\* are written to the connection, in the order they are written
RevisionsTo(msgs, socket) ==
  LET got == SelectSeq(msgs, LAMBDA m : m.to = socket /\ m.type \in SnapshotTypes)
  IN [i \in 1 .. Len(got) |-> got[i].revision]

\* the last step delivered the revision to the connection
Delivered(socket, revision) ==
  \E i \in 1 .. Len(RevisionsTo(sent, socket)) : RevisionsTo(sent, socket)[i] = revision

\* the last step delivered no lower revision to the connection, and delivered its
\* revisions in non-decreasing order
NoLower(socket, revision) ==
  LET got == RevisionsTo(sent, socket)
  IN /\ \A i \in 1 .. Len(got) : got[i] >= revision
     /\ \A i, j \in 1 .. Len(got) : i < j => got[i] <= got[j]

\* the revisions a room of the model can reach
RevisionsReached == 1 .. MaxRevision + 2

\* C36: the revisions carried by the messages delivered to any one connection
\* (welcome, room_state, chat_message) form a non-decreasing sequence in
\* delivery order, under every interleaving of commands from other
\* connections, debounce flushes and periodic ticks: once a connection has
\* been sent a revision, nothing sent to it from then on carries a lower one.
C36_DeliveredRevisions ==
  \A socket \in SocketIds, revision \in RevisionsReached :
    [](Delivered(socket, revision) => [](NoLower(socket, revision)))

\* the periodic tick delivers a revision above 3 to two connections of a playing room
\* whose chat log is not empty
C36_Witness ==
  /\ last.op = "tick"
  /\ \E rid \in DOMAIN rooms :
       /\ rooms[rid].playback.isPlaying
       /\ LogOf(chatByRoom, rid) # <<>>
       /\ rooms[rid].revision > 3
       /\ \A socket \in OpenIn(rid) : Delivered(socket, rooms[rid].revision)
       /\ Cardinality(OpenIn(rid)) = 2

(***************************************************************************)
(* SpecFlush: bursts of play and pause of two users, with leaves and       *)
(* closes, under a clock that keeps running and timers that fire when due  *)
(***************************************************************************)
\* the time up to which the clock of this specification runs: three debounce windows
FlushHorizon == 750

\* commands arrive while the clock can still reach the expiry of their timer
BeforeHorizon == now + PLAYBACK_DEDUPE_WINDOW_MS <= FlushHorizon

ClockRuns == Advance(HalfWindow, FlushHorizon)

NextFlush ==
  \/ CreateFromVideo
  \/ Joins(Users, {Undefined}, MaxRevision, MainSockets)
  \/ Closes(MaxRevision)
  \/ Leaves(Users, MaxRevision)
  \/ BeforeHorizon /\ Commands({"play", "pause"}, {AtMissing}, MaxRevision, BurstLen)
  \/ TimersFire
  \/ ClockRuns

\* time passes, and the event loop runs the callback of a timeout that is due
SpecFlush ==
  /\ Init
  /\ [][NextFlush]_vars
  /\ WF_vars(ClockRuns)
  /\ \A rid \in RoomIds, userId \in Users : WF_vars(FlushTimer(rid, userId))

\* a burst of the user in the room is pending
PendingFor(rid, userId) == <<rid, userId>> \in DOMAIN pendingPlaybackBurstsByRoomUser

\* the step removes the user from the room
RemovalOf(rid, userId) ==
  /\ last'.op \in {"close", "leave"}
  /\ last'.userId = userId
  /\ userId \in rooms[rid].members
  /\ userId \notin rooms'[rid].members

\* the step fires the timer of the user's burst and writes the burst, deduplicated,
\* to the open connections of the room other than those that sent the commands
FlushOf(rid, userId) ==
  /\ last'.op = "flush"
  /\ last'.userId = userId
  /\ now >= pendingPlaybackBurstsByRoomUser[<<rid, userId>>].timeoutAt
  /\ \A i \in 1 .. Len(sent') :
       /\ sent'[i].reason = "playback"
       /\ sent'[i].byUserId = userId
       /\ sent'[i].to \in OpenIn(rid)

\* C37: once a user stops issuing applied play/pause/seek commands, that
\* user's pending burst is eventually either flushed to the other connections
\* or discarded by the user's removal, and afterwards no pending entry remains
\* for that (room, user) key; a pending entry exists exactly while a debounce
\* timer is armed for it (it holds at least one event and its timer is due
\* within the debounce window, and it goes away only when the timer fires or is
\* cleared by the removal).
C37_BurstEventuallyGone ==
  /\ \A rid \in RoomIds, userId \in Users :
       PendingFor(rid, userId) ~> ~PendingFor(rid, userId)
  /\ [][\A rid \in RoomIds, userId \in Users :
          /\ (PendingFor(rid, userId) /\ ~PendingFor(rid, userId)') =>
               (FlushOf(rid, userId) \/ RemovalOf(rid, userId))
          /\ (last'.op = "flush" /\ last'.userId = userId) =>
               (PendingFor(rid, userId) /\ ~PendingFor(rid, userId)')
          /\ PendingFor(rid, userId)' =>
               /\ pendingPlaybackBurstsByRoomUser'[<<rid, userId>>].events # <<>>
               /\ pendingPlaybackBurstsByRoomUser'[<<rid, userId>>].timeoutAt
                    <= now' + PLAYBACK_DEDUPE_WINDOW_MS]_vars

\* the timer of a burst has fired and written to the connection of the other user
\* after the revision had reached 4; nothing is pending
C37_Witness ==
  /\ last.op = "flush"
  /\ sent # <<>>
  /\ pendingPlaybackBurstsByRoomUser = EmptyMap
  /\ obs.grant.userId = last.userId
  /\ \E rid \in DOMAIN rooms : rooms[rid].revision >= 4

\* the step handles a playback command of a connection of room rid and drops it
\* because the lease is held by another user
DeniedIn(rid) ==
  /\ last'.op = "playback"
  /\ last'.result = "denied"
  /\ last'.sock \in RoomSockets(socketsByRoom, rid)

\* C38: lease self-healing: if the lease holder issues no playback command for
\* more than 2000 ms, or the holder's last connection closes, then the next
\* playback command of any other connected user is granted; no user is locked
\* out of control for longer than 2000 ms after the holder's last granted
\* command. Stated for the commands that are not granted: a command is dropped
\* only while another user holds the lease, at most 2000 ms after the command
\* that last gave that holder the lease, and while that holder still has a
\* connection to the room.
C38_SelfHealing ==
  [][\A rid \in DOMAIN rooms :
       DeniedIn(rid) =>
         LET holder == rooms[rid].activeControllerId
         IN /\ holder \notin {Null, last'.userId}
            /\ now <= rooms[rid].activeControllerUntilMs
            /\ obs.grant.userId = holder =>
                 /\ now <= obs.grant.at + CONTROL_LEASE_MS
                 /\ ConnectionsOf(rid, holder) # {}]_vars

\* the step handles a command of the user who holds the unexpired lease of the room
\* and finds nothing to change
NoOpOfHolder(rid) ==
  /\ last'.op = "playback"
  /\ last'.result = "noop"
  /\ last'.sock \in RoomSockets(socketsByRoom, rid)
  /\ rooms[rid].activeControllerId = last'.userId
  /\ now <= rooms[rid].activeControllerUntilMs

\* the step handles a command of a user other than the one whose command was last
\* granted, at most 2000 ms after that grant
WithinLastGrant ==
  /\ last'.op = "playback"
  /\ obs.grant.userId \notin {Null, last'.userId}
  /\ now <= obs.grant.at + CONTROL_LEASE_MS

\* C39: a playback command of the current lease holder renews the lease to
\* now+2000 ms even when the command turns out to be a no-op (revision
\* unchanged), so a holder who keeps sending no-op commands at intervals of at
\* most 2000 ms keeps every other user's commands denied indefinitely: each
\* command of another user within 2000 ms of the holder's last command, no-op
\* or not, is denied.
C39_NoOpRenewsLease ==
  [][\A rid \in DOMAIN rooms :
       /\ NoOpOfHolder(rid) =>
            /\ LeaseOf(rooms'[rid]) = << last'.userId, now + CONTROL_LEASE_MS >>
            /\ rooms'[rid].revision = rooms[rid].revision
            /\ rooms'[rid].playback = rooms[rid].playback
            /\ sent' = <<>>
            /\ obs'.grant = [userId |-> last'.userId, at |-> now]
       /\ (WithinLastGrant /\ last'.sock \in RoomSockets(socketsByRoom, rid)) =>
            /\ last'.result = "denied"
            /\ rooms'[rid] = rooms[rid]]_vars

\* a command of the other user is denied more than 2000 ms after the last applied
\* command of the room, the play at time 0: the holder has repeated it since
C39_Witness ==
  /\ last.op = "playback" /\ last.result = "denied"
  /\ now > CONTROL_LEASE_MS
  /\ obs.grant.userId \notin {Null, last.userId}
  /\ \E rid \in DOMAIN rooms :
       /\ rooms[rid].playback.isPlaying
       /\ rooms[rid].playback.lastUpdatedAtMs = 0
       /\ rooms[rid].activeControllerId = obs.grant.userId
       /\ rooms[rid].activeControllerUntilMs >= now

(***************************************************************************)
(* SpecThread: a log of replies to its first message that grows past the   *)
(* limit of 200 messages                                                   *)
(***************************************************************************)
\* the revision a room reaches when the first message has left the full log
ThreadRevisions == MAX_CHAT_MESSAGES + 3

NextThread ==
  \/ CreateFromVideo
  \/ Joins({"a"}, {Undefined}, MaxRevision, MainSockets)
  \/ Chats({<<"h">>}, {Undefined}, 3)
  \/ Chats({<<"h">>}, {IdText(1)}, ThreadRevisions)

SpecThread == Init /\ [][NextThread]_vars

\* the message is a reply
IsReply(message) == message.replyToMessageId # Undefined

\* the target of the reply at position i is at an earlier position of the log
TargetEarlier(log, i) == \E j \in 1 .. i - 1 : log[j].id = log[i].replyToMessageId

\* C40 as stated: in every reachable state, every reply reference stored in a
\* room's chat log names a message that is present earlier in the same log,
\* also after older messages have been discarded by the 200-entry bound.
C40_TargetsPresent ==
  \A rid \in DOMAIN chatByRoom :
    \A i \in 1 .. Len(chatByRoom[rid]) :
      IsReply(chatByRoom[rid][i]) => TargetEarlier(chatByRoom[rid], i)

\* C40, amended: every reply reference stored in a room's chat log names a
\* message that was in the log when the reply was posted; the target is at an earlier
\* position of the log for as long as the 200-entry bound has not discarded
\* it, and once the log is full and has discarded the target the reply stays
\* in the log with a reference to a message that is no longer there.
C40_TargetsOnceInLog ==
  [][\A rid \in DOMAIN chatByRoom' :
       LET log == LogOf(chatByRoom, rid)
           posted == chatByRoom'[rid]
       IN /\ (last'.op = "chat" /\ last'.result = "posted"
              /\ IsReply(posted[Len(posted)])) =>
               InLog(log, posted[Len(posted)].replyToMessageId)
          /\ \A i \in 1 .. Len(posted) :
               IsReply(posted[i]) =>
                 \/ TargetEarlier(posted, i)
                 \/ /\ Len(posted) = MAX_CHAT_MESSAGES
                    /\ ~InLog(posted, posted[i].replyToMessageId)]_vars

\* the full log begins with a reply to the first message, which has been discarded
C40_Witness ==
  \E rid \in DOMAIN chatByRoom :
    /\ Len(chatByRoom[rid]) = MAX_CHAT_MESSAGES
    /\ chatByRoom[rid][1].replyToMessageId = IdText(1)
    /\ ~InLog(chatByRoom[rid], IdText(1))
    /\ last.op = "chat" /\ last.result = "posted"

====
